---- MODULE Spec2Model ----
(***************************************************************************)
(* Client-side request / cache / retry layer and the debounced search      *)
(* hook of the company lookup dashboard.                                   *)
(*                                                                         *)
(*   services/api (src/frontend/src/services/constants.js, lines 221-683)  *)
(*       transformError, retryRequest, the response cache, the recent      *)
(*       search store and ApiService.searchCompanies                       *)
(*   hooks/useDebounce.js, hooks/useCompanySearch (src/unnamed/part_005)   *)
(*                                                                         *)
(* Time is Date.now() in milliseconds.  Timers (setTimeout) carry the      *)
(* instant at which they fire; time never passes a pending timer.          *)
(***************************************************************************)
EXTENDS Integers, Sequences, FiniteSets, TLC

VARIABLES
    now,            \* Date.now()
    cache,          \* the module-level Map of api.js: key -> entry
    lastPut,        \* history: key -> the last setCache on it since clearCache
    storage,        \* localStorage[STORAGE_KEYS.RECENT_SEARCHES]
    saveLog,        \* history: every query passed to saveRecentSearch
    input,          \* the failure handed to the response interceptor
    classified,     \* the Error Record transformError returned for it
    rcall,          \* the running retryRequest call (its locals)
    fcall,          \* the facade operation awaiting its request
    ret,            \* what the last finished operation returned or threw
    autoSearch,     \* useCompanySearch option
    query,          \* useCompanySearch state
    results,
    error,
    loading,
    hasSearched,
    debouncedQuery, \* useDebounce state (debouncedValue)
    timers,         \* pending setTimeout handlers of useDebounce
    calls,          \* searchCompanies calls awaiting retryRequest
    invoked,        \* history: number of performSearch invocations
    lastSearch,     \* history: the last search issued and what it produced
    lastWriter,     \* history: what wrote `results` last
    keystrokes,     \* history: number of keystrokes in the search input
    enableSuggestions, \* useCompanySearch option
    suggestions,    \* useCompanySearch state
    cleared,        \* history: clearSearch ran, no keystroke or search since
    lastSuggest,    \* history: the last suggestions request and its outcome
    awaiting,       \* SearchBar: handleSearch calls suspended on `await search`
    notified,       \* SearchBar: the last event passed to onSearchResult
    recentSearches, \* SearchBar state
    picked,         \* history: the dropdown entries selected so far
    searchStatus,   \* Dashboard state (searchState)
    companyData,    \* Dashboard state
    loadingDetails, \* Dashboard state
    lookups,        \* Dashboard: lookupCompany calls awaiting retryRequest
    lastEvent,      \* history: the last event Dashboard handled
    candidate,      \* the text handed to the validators' validateSearchQuery
    validated       \* the results it returned, in order

cacheVars == <<cache, lastPut>>
recentVars == <<storage, saveLog>>
classifyVars == <<input, classified>>
searchState == <<query, results, suggestions, error, loading, hasSearched>>
hookVars == <<autoSearch, enableSuggestions, searchState, debouncedQuery,
              timers, calls, invoked, lastSearch, lastWriter, keystrokes,
              cleared>>

validateVars == <<candidate, validated>>
barVars == <<awaiting, notified, recentSearches, picked>>
dashVars == <<searchStatus, companyData, loadingDetails, lookups, lastEvent>>
viewVars == <<validateVars, lastSuggest, barVars, dashVars>>

vars == <<now, cacheVars, recentVars, classifyVars, rcall, fcall, ret,
          hookVars, viewVars>>

----------------------------------------------------------------------------
(* Program constants                                                       *)

RETRY_ATTEMPTS == 3
RETRY_DELAY == 1000

BAD_REQUEST == 400
NOT_FOUND == 404
TOO_MANY_REQUESTS == 429
INTERNAL_SERVER_ERROR == 500
BAD_GATEWAY == 502
SERVICE_UNAVAILABLE == 503
GATEWAY_TIMEOUT == 504

ERROR_TYPES ==
    { "NETWORK_ERROR", "TIMEOUT_ERROR", "API_ERROR", "VALIDATION_ERROR",
      "NOT_FOUND", "RATE_LIMIT", "SERVER_ERROR", "UNKNOWN_ERROR" }

\* JavaScript's undefined / null, and "nothing yet" for the history variables.
Undefined == "undefined"
Null == "null"
None == [op |-> "none"]

----------------------------------------------------------------------------
(* Bounds of the model                                                     *)

\* retryRequest is exercised with maxRetries in 1..MaxRetriesArg
MaxRetriesArg == 4

\* HTTP statuses a failed response may carry: every non-2xx status code.
Statuses == (100..199) \cup (300..599)

\* What the server may put in the body's message and the retry-after header.
Messages == { Undefined, "server message" }
RetryAfters == { Undefined, "30" }

\* A failure as axios hands it to the response interceptor: error.response is
\* absent (hasResponse = FALSE: connection refused, DNS failure, timeout) or
\* carries status, data.message and headers['retry-after'].
NoResponse ==
    [hasResponse |-> FALSE, status |-> 0, message |-> Undefined,
     retryAfter |-> Undefined]

Response(s, m, r) ==
    [hasResponse |-> TRUE, status |-> s, message |-> m, retryAfter |-> r]

AllFailures ==
    { NoResponse } \cup
    { Response(s, m, r) : s \in Statuses, m \in Messages, r \in RetryAfters }

\* The failures the retry loop is driven with: one or two statuses per branch
\* of transformError.
RetryStatuses == { 400, 401, 404, 429, 500, 503 }

RetryFailures ==
    { NoResponse } \cup
    { Response(s, Undefined, Undefined) : s \in RetryStatuses } \cup
    { Response(TOO_MANY_REQUESTS, Undefined, "30") }

----------------------------------------------------------------------------
(* transformError                                                          *)

\* data?.message || fallback
MessageOr(e, fallback) ==
    IF e.message = Undefined THEN fallback ELSE e.message

ErrorRecord(type, message, retryAfter, e) ==
    [type |-> type, message |-> message, retryAfter |-> retryAfter,
     originalError |-> e]

\* transformError with the GATEWAY_TIMEOUT case label left out
transformError_NoGatewayTimeout(e) ==
    IF ~e.hasResponse
    THEN ErrorRecord("NETWORK_ERROR",
                     "Network error. Please check your internet connection.",
                     Undefined, e)
    ELSE CASE e.status = BAD_REQUEST ->
                ErrorRecord("VALIDATION_ERROR",
                            MessageOr(e, "Invalid request parameters."),
                            Undefined, e)
           [] e.status = NOT_FOUND ->
                ErrorRecord("NOT_FOUND",
                            MessageOr(e, "The requested resource was not found."),
                            Undefined, e)
           [] e.status = TOO_MANY_REQUESTS ->
                ErrorRecord("RATE_LIMIT",
                            MessageOr(e, "Too many requests. Please try again later."),
                            e.retryAfter, e)
           [] e.status \in { INTERNAL_SERVER_ERROR, BAD_GATEWAY,
                             SERVICE_UNAVAILABLE } ->
                ErrorRecord("SERVER_ERROR",
                            MessageOr(e, "Server error. Please try again later."),
                            Undefined, e)
           [] OTHER ->
                ErrorRecord("API_ERROR",
                            MessageOr(e, "Request failed with status "
                                            \o ToString(e.status) \o "."),
                            Undefined, e)

transformError(e) ==
    IF ~e.hasResponse
    THEN ErrorRecord("NETWORK_ERROR",
                     "Network error. Please check your internet connection.",
                     Undefined, e)
    ELSE CASE e.status = BAD_REQUEST ->
                ErrorRecord("VALIDATION_ERROR",
                            MessageOr(e, "Invalid request parameters."),
                            Undefined, e)
           [] e.status = NOT_FOUND ->
                ErrorRecord("NOT_FOUND",
                            MessageOr(e, "The requested resource was not found."),
                            Undefined, e)
           [] e.status = TOO_MANY_REQUESTS ->
                ErrorRecord("RATE_LIMIT",
                            MessageOr(e, "Too many requests. Please try again later."),
                            e.retryAfter, e)
           [] e.status \in { INTERNAL_SERVER_ERROR, BAD_GATEWAY,
                             SERVICE_UNAVAILABLE, GATEWAY_TIMEOUT } ->
                ErrorRecord("SERVER_ERROR",
                            MessageOr(e, "Server error. Please try again later."),
                            Undefined, e)
           [] OTHER ->
                ErrorRecord("API_ERROR",
                            MessageOr(e, "Request failed with status "
                                            \o ToString(e.status) \o "."),
                            Undefined, e)

\* The response interceptor's rejection handler: Promise.reject(transformError(error))
InterceptFailure(e) == transformError(e)

----------------------------------------------------------------------------
(* retryRequest                                                            *)

\* The locals of one retryRequest call.  phase is where the loop is suspended:
\* "request" at `await requestFn()`, "backoff" at `await new Promise(setTimeout)`.
\* requests, delays and kinds are history: the number of requestFn calls made,
\* the delays handed to setTimeout, and the error types caught so far.
NewRetry(maxRetries) ==
    [maxRetries |-> maxRetries, attempt |-> 1, phase |-> "request",
     lastError |-> Undefined, timer |-> 0,
     requests |-> 1, delays |-> <<>>, kinds |-> {}]

\* NoRetry with the NOT_FOUND test left out
NoRetry_WithoutNotFound(err) ==
    \/ err.type = "VALIDATION_ERROR"
    \/ (err.originalError.hasResponse /\ err.originalError.status = BAD_REQUEST)

\* error.type is VALIDATION_ERROR or NOT_FOUND, or the original status is 400
NoRetry(err) ==
    \/ err.type = "VALIDATION_ERROR"
    \/ err.type = "NOT_FOUND"
    \/ (err.originalError.hasResponse /\ err.originalError.status = BAD_REQUEST)

\* BackoffDelay growing linearly instead of doubling
BackoffDelay_Linear(attempt) == RETRY_DELAY * attempt

BackoffDelay(attempt) == RETRY_DELAY * 2^(attempt - 1)

\* RetryCatch taking maxRetries for the number of retries' upper index: the
\* last attempt is never made
RetryCatch_OneAttemptShort(c, err) ==
    LET caught == [c EXCEPT !.lastError = err,
                            !.kinds = c.kinds \cup { err.type }]
    IN  IF NoRetry(err)
        THEN [step |-> "throw", error |-> err, call |-> caught]
        ELSE IF c.attempt < c.maxRetries - 1
             THEN [step |-> "wait",
                   call |-> [caught EXCEPT
                               !.phase = "backoff",
                               !.timer = now + BackoffDelay(c.attempt),
                               !.delays = Append(c.delays, BackoffDelay(c.attempt))]]
             ELSE [step |-> "throw", error |-> caught.lastError, call |-> caught]

\* RetryCatch calling requestFn again at once, without the backoff wait
RetryCatch_NoWait(c, err) ==
    LET caught == [c EXCEPT !.lastError = err,
                            !.kinds = c.kinds \cup { err.type }]
    IN  IF NoRetry(err)
        THEN [step |-> "throw", error |-> err, call |-> caught]
        ELSE IF c.attempt < c.maxRetries
             THEN [step |-> "wait",
                   call |-> [caught EXCEPT
                               !.attempt = c.attempt + 1,
                               !.requests = c.requests + 1]]
             ELSE [step |-> "throw", error |-> caught.lastError, call |-> caught]

\* The catch block for an `err` thrown by requestFn: what the loop does next.
\*   "throw"   the call rejects: `throw error` in the catch block (no retry), or
\*             the loop ends (attempt = maxRetries) and `throw lastError` runs
\*   "wait"    setTimeout(resolve, delay) is armed and the loop suspends
RetryCatch(c, err) ==
    LET caught == [c EXCEPT !.lastError = err,
                            !.kinds = c.kinds \cup { err.type }]
    IN  IF NoRetry(err)
        THEN [step |-> "throw", error |-> err, call |-> caught]
        ELSE IF c.attempt < c.maxRetries
             THEN [step |-> "wait",
                   call |-> [caught EXCEPT
                               !.phase = "backoff",
                               !.timer = now + BackoffDelay(c.attempt),
                               !.delays = Append(c.delays, BackoffDelay(c.attempt))]]
             ELSE [step |-> "throw", error |-> caught.lastError, call |-> caught]

\* The backoff wait is over: attempt++ and requestFn is called again.
RetryResume(c) ==
    [c EXCEPT !.phase = "request", !.attempt = c.attempt + 1,
              !.requests = c.requests + 1]

Idle == [phase |-> "idle"]

\* No facade operation is awaiting a request; n counts the operations called.
NoCall ==
    [name |-> "none", key |-> "", ttl |-> 0, cached |-> FALSE,
     retried |-> FALSE, useCache |-> FALSE, n |-> 0, failures |-> 0]

----------------------------------------------------------------------------
(* The response cache                                                      *)

DEFAULT_TTL == 5 * 60 * 1000
SEARCH_TTL == 2 * 60 * 1000
COMPANY_TTL == 10 * 60 * 1000
STOCK_TTL == 1 * 60 * 1000
FILINGS_TTL == 30 * 60 * 1000

MAX_RESULTS == 10

\* The parameter names of the facade's requests, in the order
\* Object.keys(params).sort() puts them.
ParamOrder ==
    << "detailed", "filings_limit", "form_types", "include_filings",
       "include_stock", "limit", "q" >>

SortedKeys(params) ==
    LET Given(name) == name \in DOMAIN params
    IN  SelectSeq(ParamOrder, Given)

\* keys.map(key => `${key}=${params[key]}`).join('&')
RECURSIVE JoinPairs(_, _)
JoinPairs(keys, params) ==
    IF keys = <<>> THEN ""
    ELSE keys[1] \o "=" \o params[keys[1]] \o
         (IF Len(keys) > 1 THEN "&" \o JoinPairs(Tail(keys), params) ELSE "")

getCacheKey(url, params) ==
    LET paramString == JoinPairs(SortedKeys(params), params)
    IN  url \o (IF paramString # "" THEN "?" \o paramString ELSE "")

\* searchCompanies: getCacheKey(`search:${query}`, {q: query, limit})
SearchKey(q, limit) ==
    getCacheKey("search:" \o q,
                [n \in { "q", "limit" } |->
                    IF n = "q" THEN q ELSE ToString(limit)])

\* getStockQuote: getCacheKey(`stock:${ticker}`, {detailed})
StockKey(ticker, detailed) ==
    getCacheKey("stock:" \o ticker,
                [n \in { "detailed" } |-> IF detailed THEN "true" ELSE "false"])

\* response.data, the envelope of the backend: status, data.results, message
Success(list) == [status |-> "success", results |-> list, message |-> Undefined]
Failed(message) == [status |-> "error", results |-> <<>>, message |-> message]

\* What getCache returns on a miss, and cache.get(key) for a key not in the Map.
JSNull == [status |-> "null", results |-> <<>>, message |-> Undefined]
UndefinedEntry == [defined |-> FALSE, data |-> JSNull, timestamp |-> 0, ttl |-> 0]

MapGet(map, key) == IF key \in DOMAIN map THEN map[key] ELSE UndefinedEntry
MapSet(map, key, value) ==
    [k \in DOMAIN map \cup { key } |-> IF k = key THEN value ELSE map[k]]
MapDelete(map, key) == [k \in DOMAIN map \ { key } |-> map[k]]

\* isValidCacheEntry taking the entry for valid at the instant it expires
isValidCacheEntry_Inclusive(entry, ttl) ==
    entry.defined /\ (now - entry.timestamp) <= ttl

\* entry && (Date.now() - entry.timestamp) < ttl
isValidCacheEntry(entry, ttl) ==
    entry.defined /\ (now - entry.timestamp) < ttl

\* setCache keeping the entry a key already has
setCache_KeepExisting(map, key, data, ttl) ==
    IF key \in DOMAIN map
    THEN map
    ELSE MapSet(map, key,
                [defined |-> TRUE, data |-> data, timestamp |-> now,
                 ttl |-> ttl])

\* The Map after setCache(key, data, ttl)
setCache(map, key, data, ttl) ==
    MapSet(map, key,
           [defined |-> TRUE, data |-> data, timestamp |-> now, ttl |-> ttl])

\* getCache returning null for a stale entry without cache.delete(key)
getCache_KeepStale(map, key, ttl) ==
    LET entry == MapGet(map, key)
    IN  IF isValidCacheEntry(entry, ttl)
        THEN [value |-> entry.data, cache |-> map]
        ELSE [value |-> JSNull, cache |-> map]

\* getCache restarting the TTL of the entry it serves (sliding expiration)
getCache_Touch(map, key, ttl) ==
    LET entry == MapGet(map, key)
    IN  IF isValidCacheEntry(entry, ttl)
        THEN [value |-> entry.data,
              cache |-> MapSet(map, key, [entry EXCEPT !.timestamp = now])]
        ELSE [value |-> JSNull, cache |-> MapDelete(map, key)]

\* getCache(key, ttl): the value returned and the Map afterwards
getCache(map, key, ttl) ==
    LET entry == MapGet(map, key)
    IN  IF isValidCacheEntry(entry, ttl)
        THEN [value |-> entry.data, cache |-> map]
        ELSE [value |-> JSNull, cache |-> MapDelete(map, key)]

\* clearCache(): cache.clear()
clearCache(map) == <<>>

\* getCacheStats(): cache.size and one {key, age, ttl} per entry
getCacheStats(map) ==
    [size |-> Cardinality(DOMAIN map),
     entries |-> { [key |-> k, age |-> now - map[k].timestamp,
                    ttl |-> map[k].ttl] : k \in DOMAIN map }]

----------------------------------------------------------------------------
(* The recent-search store                                                 *)

\* The length saveRecentSearch cuts the list to: slice(0, 10)
RECENT_LIMIT == 10

\* localStorage.getItem(RECENT_SEARCHES): nothing stored (null), or the JSON
\* text of an array of strings, modelled by the array it encodes.
NoItem == [stored |-> FALSE, json |-> <<>>]
JSONstringify(list) == [stored |-> TRUE, json |-> list]
JSONparse(item) == item.json

\* stored ? JSON.parse(stored) : []
getRecentSearches(st) ==
    IF st.stored THEN JSONparse(st) ELSE <<>>

\* Array.prototype.slice(0, n)
SliceFromStart(list, n) ==
    SubSeq(list, 1, IF Len(list) < n THEN Len(list) ELSE n)

\* saveRecentSearch keeping the old occurrence of the query
saveRecentSearch_NoFilter(st, q) ==
    JSONstringify(SliceFromStart(<<q>> \o getRecentSearches(st), RECENT_LIMIT))

\* saveRecentSearch adding the query at the end of the list
saveRecentSearch_Append(st, q) ==
    LET recent == getRecentSearches(st)
        Other(x) == x # q
    IN  JSONstringify(SliceFromStart(SelectSeq(recent, Other) \o <<q>>,
                                     RECENT_LIMIT))

\* The item saveRecentSearch(query) stores:
\* [query, ...recent.filter(q => q !== query)].slice(0, 10)
saveRecentSearch(st, q) ==
    LET recent == getRecentSearches(st)
        Other(x) == x # q
    IN  JSONstringify(SliceFromStart(<<q>> \o SelectSeq(recent, Other),
                                     RECENT_LIMIT))

\* localStorage.removeItem(RECENT_SEARCHES)
clearRecentSearches(st) == NoItem

----------------------------------------------------------------------------
(* Initial values                                                          *)

ClockInit == now = 0
ClassifyIdle == input = NoResponse /\ classified = None
RetryIdle == rcall = Idle /\ fcall = NoCall
CacheInit == cache = <<>> /\ lastPut = <<>>
RecentInit == storage = NoItem /\ saveLog = <<>>
ValidateIdle == candidate = <<>> /\ validated = <<>>

\* No suggestions request issued.
NoSuggest == [seq |-> 0, query |-> "", state |-> "none", results |-> <<>>]
SuggestIdle == lastSuggest = NoSuggest

\* No SearchBar mounted: nothing passed to onSearchResult, nothing selected.
NoEvent == [query |-> "", results |-> <<>>, hasResults |-> FALSE,
            error |-> Null, sent |-> FALSE]
NothingPicked == [n |-> 0, text |-> ""]
BarIdle ==
    /\ awaiting = {} /\ notified = NoEvent /\ recentSearches = <<>>
    /\ picked = NothingPicked

\* Dashboard as it mounts: useState({query: '', loading: false, error: null,
\* hasSearched: false}), useState(null), useState(false).  NoData is the null
\* of companyData.
SearchStatusInit ==
    [query |-> "", loading |-> FALSE, error |-> Null, hasSearched |-> FALSE]
NoData == <<>>
NoEventYet == [n |-> 0, kind |-> "none", query |-> "", hasResults |-> FALSE]
DashIdle ==
    /\ searchStatus = SearchStatusInit /\ companyData = NoData
    /\ loadingDetails = FALSE /\ lookups = {} /\ lastEvent = NoEventYet
ViewIdle == ValidateIdle /\ SuggestIdle /\ BarIdle /\ DashIdle

\* No search widget mounted.
NoSearch == [seq |-> 0, query |-> "", state |-> "none", results |-> <<>>,
             error |-> Null]
HookIdle ==
    /\ autoSearch = FALSE /\ enableSuggestions = FALSE
    /\ query = "" /\ results = <<>> /\ suggestions = <<>> /\ error = Null
    /\ loading = FALSE /\ hasSearched = FALSE
    /\ debouncedQuery = "" /\ timers = {} /\ calls = {}
    /\ invoked = 0 /\ lastSearch = NoSearch /\ lastWriter = "init"
    /\ keystrokes = 0 /\ cleared = FALSE

----------------------------------------------------------------------------
(* SpecClassify: the response interceptor applied to every failure          *)

InitClassify ==
    /\ ClockInit /\ ViewIdle /\ CacheInit /\ RecentInit /\ RetryIdle /\ HookIdle
    /\ input \in AllFailures
    /\ classified = None
    /\ ret = None

Classify ==
    /\ classified = None
    /\ classified' = InterceptFailure(input)
    /\ input' = input
    /\ UNCHANGED <<viewVars, now, cacheVars, recentVars, rcall, ret, fcall, hookVars>>

NextClassify == Classify

SpecClassify == InitClassify /\ [][NextClassify]_vars

----------------------------------------------------------------------------
(* SpecRetry: retryRequest(requestFn, maxRetries) driven by a requestFn     *)
(* that resolves or rejects with an intercepted failure                     *)

\* Time steps of the retry specification, and the instant where it stops.
RetryDeltas == { 500, 1000 }
MaxRetryNow == 8000

InitRetry ==
    /\ ClockInit /\ ViewIdle /\ CacheInit /\ RecentInit /\ RetryIdle /\ ClassifyIdle
    /\ HookIdle
    /\ ret = None

RetryStart(m) ==
    /\ rcall.phase = "idle"
    /\ rcall' = NewRetry(m)
    /\ ret' = None
    /\ UNCHANGED <<viewVars, now, cacheVars, recentVars, classifyVars, fcall, hookVars>>

\* `return await requestFn()` with requestFn resolved
RetryRequestSucceeds ==
    /\ rcall.phase = "request"
    /\ ret' = [op |-> "retryRequest", outcome |-> "resolved",
               error |-> Undefined, call |-> rcall]
    /\ rcall' = Idle
    /\ UNCHANGED <<viewVars, now, cacheVars, recentVars, classifyVars, fcall, hookVars>>

\* requestFn rejected: the interceptor's Error Record reaches the catch block
RetryRequestFails(f) ==
    /\ rcall.phase = "request"
    /\ LET r == RetryCatch(rcall, InterceptFailure(f))
       IN  IF r.step = "throw"
           THEN /\ ret' = [op |-> "retryRequest", outcome |-> "rejected",
                           error |-> r.error, call |-> r.call]
                /\ rcall' = Idle
           ELSE /\ rcall' = r.call
                /\ UNCHANGED ret
    /\ UNCHANGED <<viewVars, now, cacheVars, recentVars, classifyVars, fcall, hookVars>>

\* the setTimeout of the backoff fires
RetryBackoffElapsed ==
    /\ rcall.phase = "backoff"
    /\ now >= rcall.timer
    /\ rcall' = RetryResume(rcall)
    /\ UNCHANGED <<viewVars, now, cacheVars, recentVars, classifyVars, fcall, ret, hookVars>>

\* time passes, never beyond the pending backoff timer
RetryTick(d) ==
    /\ rcall.phase \in { "request", "backoff" }
    /\ rcall.phase = "backoff" => now + d <= rcall.timer
    /\ now + d <= MaxRetryNow
    /\ now' = now + d
    /\ UNCHANGED <<viewVars, cacheVars, recentVars, classifyVars, fcall, rcall, ret, hookVars>>

NextRetry ==
    \/ \E m \in 1..MaxRetriesArg : RetryStart(m)
    \/ RetryRequestSucceeds
    \/ \E f \in RetryFailures : RetryRequestFails(f)
    \/ RetryBackoffElapsed
    \/ \E d \in RetryDeltas : RetryTick(d)

SpecRetry == InitRetry /\ [][NextRetry]_vars

----------------------------------------------------------------------------
(* SpecRecent: saveRecentSearch / clearRecentSearches on the store          *)

\* The queries saved.  They are interchangeable, so a query never saved
\* before is always the next one of the pool; a saved one may be saved again.
QueryPool ==
    << "AAPL", "AMZN", "BA", "CSCO", "DIS", "GOOG", "IBM", "INTC", "JPM",
       "KO", "META", "MSFT", "NFLX", "NVDA", "ORCL", "TSLA" >>

\* How many distinct queries are saved, and how many saves repeat a query.
MaxFresh == 12
MaxRepeats == 2

Range(seq) == { seq[i] : i \in 1..Len(seq) }
Saved == Range(saveLog)

InitRecent ==
    /\ ClockInit /\ ViewIdle /\ CacheInit /\ RecentInit /\ RetryIdle /\ ClassifyIdle
    /\ HookIdle
    /\ ret = None

RecordSave(q) ==
    /\ storage' = saveRecentSearch(storage, q)
    /\ saveLog' = Append(saveLog, q)
    /\ ret' = [op |-> "saveRecentSearch", query |-> q, before |-> storage]
    /\ UNCHANGED <<viewVars, now, cacheVars, classifyVars, fcall, rcall, hookVars>>

\* saveRecentSearch(q) for a query not saved before
SaveFresh ==
    /\ Cardinality(Saved) < MaxFresh
    /\ Cardinality(Saved) < Len(QueryPool)
    /\ RecordSave(QueryPool[Cardinality(Saved) + 1])

\* saveRecentSearch(q) for a query saved before
SaveAgain(q) ==
    /\ q \in Saved
    /\ Len(saveLog) - Cardinality(Saved) < MaxRepeats
    /\ RecordSave(q)

\* clearRecentSearches(): the history starts again with the empty store
ClearRecent ==
    /\ storage.stored
    /\ storage' = clearRecentSearches(storage)
    /\ saveLog' = <<>>
    /\ ret' = None
    /\ UNCHANGED <<viewVars, now, cacheVars, classifyVars, fcall, rcall, hookVars>>

NextRecent ==
    \/ SaveFresh
    \/ \E q \in Saved : SaveAgain(q)
    \/ ClearRecent

SpecRecent == InitRecent /\ [][NextRecent]_vars

----------------------------------------------------------------------------
(* SpecCache: getCache / setCache / clearCache as the facade calls them     *)

\* Payloads stored by the facade: successful responses.
CachePayloads == { Success(<<>>), Success(<<"TSLA">>) }

\* The (key, ttl) pairs of the facade's calls: every key is read and written
\* with the TTL class of its operation.
CacheUses ==
    { [key |-> SearchKey("TSLA", MAX_RESULTS), ttl |-> SEARCH_TTL],
      [key |-> StockKey("TSLA", FALSE), ttl |-> STOCK_TTL] }

\* The instant where the cache specification stops.
MaxCacheNow == 180000

InitCache ==
    /\ ClockInit /\ ViewIdle /\ CacheInit /\ RecentInit /\ RetryIdle /\ ClassifyIdle
    /\ HookIdle
    /\ ret = None

\* setCache(key, data, ttl), the write after a successful response
CacheSet(u, data) ==
    /\ cache' = setCache(cache, u.key, data, u.ttl)
    /\ lastPut' = MapSet(lastPut, u.key, [data |-> data, at |-> now, ttl |-> u.ttl])
    /\ ret' = [op |-> "setCache", key |-> u.key]
    /\ UNCHANGED <<viewVars, now, recentVars, classifyVars, fcall, rcall, hookVars>>

\* getCache(key, ttl), the read at the start of a facade operation
CacheGet(u) ==
    /\ LET r == getCache(cache, u.key, u.ttl)
       IN  /\ cache' = r.cache
           /\ ret' = [op |-> "getCache", key |-> u.key, ttl |-> u.ttl,
                      value |-> r.value, at |-> now]
    /\ UNCHANGED <<viewVars, now, lastPut, recentVars, classifyVars, fcall, rcall, hookVars>>

\* apiService.clearCache()
CacheClear ==
    /\ cache # <<>>
    /\ cache' = clearCache(cache)
    /\ lastPut' = <<>>
    /\ ret' = None
    /\ UNCHANGED <<viewVars, now, recentVars, classifyVars, fcall, rcall, hookVars>>

\* Time passes up to the last instant at which the entry of key k is valid
\* (early = 1), or to the instant at which it expires (early = 0).
CacheTick(k, early) ==
    /\ k \in DOMAIN lastPut
    /\ LET t == lastPut[k].at + lastPut[k].ttl - early
       IN  /\ t > now
           /\ t <= MaxCacheNow
           /\ now' = t
    /\ UNCHANGED <<viewVars, cacheVars, recentVars, classifyVars, fcall, rcall, ret, hookVars>>

NextCache ==
    \/ \E u \in CacheUses, data \in CachePayloads : CacheSet(u, data)
    \/ \E u \in CacheUses : CacheGet(u)
    \/ CacheClear
    \/ \E u \in CacheUses, early \in { 0, 1 } : CacheTick(u.key, early)

SpecCache == InitCache /\ [][NextCache]_vars

----------------------------------------------------------------------------
(* SpecFacade: the operations of ApiService, one call at a time, each over  *)
(* the cache, retryRequest and the response interceptor                     *)

\* lookupCompany: getCacheKey(`lookup:${query}`, {q, include_stock,
\* include_filings, filings_limit})
LookupKey(q, includeStock, includeFilings, filingsLimit) ==
    LET Bool(b) == IF b THEN "true" ELSE "false"
    IN  getCacheKey("lookup:" \o q,
                    [n \in { "q", "include_stock", "include_filings",
                             "filings_limit" } |->
                        CASE n = "q" -> q
                          [] n = "include_stock" -> Bool(includeStock)
                          [] n = "include_filings" -> Bool(includeFilings)
                          [] OTHER -> ToString(filingsLimit)])

\* getCompanyByTicker: getCacheKey(`company:${ticker}`)
CompanyKey(ticker) == getCacheKey("company:" \o ticker, <<>>)

\* getCompanyFilings: getCacheKey(`filings:${cik}`, {limit})
FilingsKey(cik, limit) ==
    getCacheKey("filings:" \o cik, [n \in { "limit" } |-> ToString(limit)])

\* What an operation of the facade does around its request: the key and TTL
\* it hands to getCache and setCache (cached: it has the `if (useCache)`
\* blocks), and whether the request goes through retryRequest.
Operation(name, key, ttl, cached, retried) ==
    [name |-> name, key |-> key, ttl |-> ttl, cached |-> cached,
     retried |-> retried]

searchCompanies ==
    Operation("searchCompanies", SearchKey("TSLA", MAX_RESULTS), SEARCH_TTL,
              TRUE, TRUE)
getSearchSuggestions == Operation("getSearchSuggestions", "", 0, FALSE, FALSE)
validateSearchQuery == Operation("validateSearchQuery", "", 0, FALSE, FALSE)
lookupCompany ==
    Operation("lookupCompany", LookupKey("TSLA", TRUE, TRUE, 5), COMPANY_TTL,
              TRUE, TRUE)
getCompanyByTicker ==
    Operation("getCompanyByTicker", CompanyKey("TSLA"), COMPANY_TTL, TRUE, TRUE)
\* getStockQuote reading and writing with the TTL of the search results
getStockQuote_SearchTtl ==
    Operation("getStockQuote", StockKey("TSLA", FALSE), SEARCH_TTL, TRUE, TRUE)

getStockQuote ==
    Operation("getStockQuote", StockKey("TSLA", FALSE), STOCK_TTL, TRUE, TRUE)

\* getBatchStockQuotes with the cache blocks of getStockQuote
getBatchStockQuotes_Cached ==
    Operation("getBatchStockQuotes", "stock:batch?tickers=AAPL,TSLA", STOCK_TTL,
              TRUE, TRUE)

getBatchStockQuotes == Operation("getBatchStockQuotes", "", 0, FALSE, TRUE)
getCompanyFilings ==
    Operation("getCompanyFilings", FilingsKey("1318605", 10), FILINGS_TTL,
              TRUE, TRUE)

Operations ==
    { searchCompanies, getSearchSuggestions, validateSearchQuery,
      lookupCompany, getCompanyByTicker, getStockQuote, getBatchStockQuotes,
      getCompanyFilings }

\* response.data of the backend, and the failures of a request.
FacadePayloads == { Success(<<"TSLA">>), Failed("Upstream error") }
FacadeFailures ==
    { NoResponse, Response(NOT_FOUND, Undefined, Undefined),
      Response(SERVICE_UNAVAILABLE, Undefined, Undefined) }

\* The facade is called at most MaxFacadeCalls times.
MaxFacadeCalls == 3

\* The instant where the facade specification stops: past the longest TTL.
MaxFacadeNow == 1900000

NoError == [type |-> "none"]

\* The operation returned payload p to its caller.
Returned(call, p, fromCache, requests) ==
    [op |-> call.name, n |-> call.n, key |-> call.key,
     cached |-> call.cached, useCache |-> call.useCache,
     outcome |-> "returned", value |-> p, error |-> NoError,
     fromCache |-> fromCache, requests |-> requests,
     failures |-> call.failures]

\* Threw with the rejection turned into a return of null
Threw_Swallowed(call, err, requests) ==
    Returned(call, JSNull, FALSE, requests)

\* The rejection of `await retryRequest(...)` or `await apiClient.get(...)`
\* leaves the operation: no catch block, the Error Record goes to the caller.
Threw(call, err, requests) ==
    [op |-> call.name, n |-> call.n, key |-> call.key,
     cached |-> call.cached, useCache |-> call.useCache,
     outcome |-> "threw", value |-> JSNull, error |-> err,
     fromCache |-> FALSE, requests |-> requests,
     failures |-> call.failures]

\* ShouldCache without the test of the status
ShouldCache_AnyStatus(call, p) == call.cached /\ call.useCache

\* if (useCache && result.status === 'success')
ShouldCache(call, p) ==
    call.cached /\ call.useCache /\ p.status = "success"

InitFacade ==
    /\ ClockInit /\ ViewIdle /\ CacheInit /\ RecentInit /\ RetryIdle /\ ClassifyIdle
    /\ HookIdle
    /\ ret = None

\* The operation o is called with option useCache: the cache is read, and on
\* a miss the request is issued.
FacadeCall(o, useCache) ==
    /\ fcall.name = "none"
    /\ rcall = Idle
    /\ fcall.n < MaxFacadeCalls
    /\ LET call == [name |-> o.name, key |-> o.key, ttl |-> o.ttl,
                    cached |-> o.cached, retried |-> o.retried,
                    useCache |-> useCache, n |-> fcall.n + 1, failures |-> 0]
           read == getCache(cache, o.key, o.ttl)
       IN  IF o.cached /\ useCache
           THEN /\ cache' = read.cache
                /\ IF read.value # JSNull
                   THEN /\ ret' = Returned(call, read.value, TRUE, 0)
                        /\ fcall' = [NoCall EXCEPT !.n = call.n]
                        /\ UNCHANGED rcall
                   ELSE /\ ret' = None
                        /\ fcall' = call
                        /\ rcall' = NewRetry(RETRY_ATTEMPTS)
           ELSE /\ ret' = None
                /\ fcall' = call
                /\ rcall' = IF o.retried THEN NewRetry(RETRY_ATTEMPTS) ELSE Idle
                /\ UNCHANGED cache
    /\ UNCHANGED <<viewVars, now, lastPut, recentVars, classifyVars, hookVars>>

\* The number of requests the running operation has issued.
Requests == IF fcall.retried THEN rcall.requests ELSE 1

\* The request resolves with payload p.
FacadeRequestSucceeds(p) ==
    /\ fcall.name # "none"
    /\ fcall.retried => rcall.phase = "request"
    /\ IF ShouldCache(fcall, p)
       THEN /\ cache' = setCache(cache, fcall.key, p, fcall.ttl)
            /\ lastPut' = MapSet(lastPut, fcall.key,
                                 [data |-> p, at |-> now, ttl |-> fcall.ttl])
       ELSE UNCHANGED cacheVars
    /\ ret' = Returned(fcall, p, FALSE, Requests)
    /\ fcall' = [NoCall EXCEPT !.n = fcall.n]
    /\ rcall' = Idle
    /\ UNCHANGED <<viewVars, now, recentVars, classifyVars, hookVars>>

\* The request rejects with the Error Record of failure f.
FacadeRequestFails(f) ==
    /\ fcall.name # "none"
    /\ fcall.retried => rcall.phase = "request"
    /\ LET failed == [fcall EXCEPT !.failures = fcall.failures + 1]
           err == InterceptFailure(f)
       IN  IF fcall.retried
           THEN LET r == RetryCatch(rcall, err)
                IN  IF r.step = "throw"
                    THEN /\ ret' = Threw(failed, r.error, Requests)
                         /\ fcall' = [NoCall EXCEPT !.n = fcall.n]
                         /\ rcall' = Idle
                    ELSE /\ fcall' = failed
                         /\ rcall' = r.call
                         /\ UNCHANGED ret
           ELSE /\ ret' = Threw(failed, err, Requests)
                /\ fcall' = [NoCall EXCEPT !.n = fcall.n]
                /\ UNCHANGED rcall
    /\ UNCHANGED <<viewVars, now, cacheVars, recentVars, classifyVars, hookVars>>

\* Time passes until the backoff timer of retryRequest is due.
FacadeBackoffTick ==
    /\ rcall.phase = "backoff"
    /\ now < rcall.timer
    /\ now' = rcall.timer
    /\ UNCHANGED <<viewVars, cacheVars, recentVars, classifyVars, rcall, fcall, ret,
                   hookVars>>

\* Between two operations, time passes up to the expiry of a cache entry.
FacadeExpiryTick(k, early) ==
    /\ fcall.name = "none"
    /\ k \in DOMAIN lastPut
    /\ LET t == lastPut[k].at + lastPut[k].ttl - early
       IN  /\ t > now
           /\ t <= MaxFacadeNow
           /\ now' = t
    /\ UNCHANGED <<viewVars, cacheVars, recentVars, classifyVars, fcall, rcall,
                   ret, hookVars>>

\* Between two operations, apiService.clearCache() is called.
FacadeClear ==
    /\ fcall.name = "none"
    /\ CacheClear

NextFacade ==
    \/ \E o \in Operations, useCache \in BOOLEAN : FacadeCall(o, useCache)
    \/ \E p \in FacadePayloads : FacadeRequestSucceeds(p)
    \/ \E f \in FacadeFailures : FacadeRequestFails(f)
    \/ RetryBackoffElapsed
    \/ FacadeBackoffTick
    \/ \E k \in DOMAIN lastPut, early \in { 0, 1 } : FacadeExpiryTick(k, early)
    \/ FacadeClear

SpecFacade == InitFacade /\ [][NextFacade]_vars

----------------------------------------------------------------------------
(* Spec: useCompanySearch with useDebounce, over apiService.searchCompanies *)
(* (the search side of the hook; its suggestions are SpecSuggest's)         *)
(*                                                                          *)
(* A searchCompanies call is in flight while it awaits retryRequest, whose  *)
(* loop is SpecRetry's; here the call ends when retryRequest resolves with  *)
(* the backend's payload or rejects with an intercepted failure.            *)

MIN_QUERY_LENGTH == 2
DEBOUNCE_DELAY == 300
SUGGESTIONS_DELAY == 100

\* The texts the search input takes.
Queries == { "", "T", "TS", "TSL" }

\* performSearch is invoked at most MaxSearches times.
MaxSearches == 2

\* The search input takes at most MaxKeystrokes keystrokes.
MaxKeystrokes == 3

\* Time steps of a keystroke sequence, and the instant where the model stops.
HookDeltas == { 150 }
MaxHookNow == 600

\* What the backend answers to a search for q.
BackendPayloads(q) ==
    { Success(<<q>>), Success(<<>>), Failed("Search is unavailable") }

\* What the backend answers to a suggestions request for q.
SuggestionPayloads(q) ==
    { Success(<<q>>), Failed("Suggestions are unavailable") }

\* The failures a search request ends with.
HookFailures == { NoResponse, Response(BAD_REQUEST, Undefined, Undefined) }

\* setTimeout(() => setDebouncedValue(value), delay)
DebounceTimer(value, typed) ==
    [hook |-> "useDebounce", value |-> value, at |-> now + DEBOUNCE_DELAY,
     typed |-> typed]

\* The effect of useDebounce after a render with a new value, on the pending
\* timers ts: the cleanup of the previous run clears its handler, then the new
\* handler is armed.  typed tells a value set by a keystroke from one set by
\* mount or clearSearch.
DebounceEffect(ts, value, typed) ==
    { t \in ts : t.hook # "useDebounce" } \cup { DebounceTimer(value, typed) }

\* setTimeout(() => getSuggestions(query), 100)
SuggestionsTimer(q) ==
    [hook |-> "suggestions", value |-> q, at |-> now + SUGGESTIONS_DELAY,
     typed |-> TRUE]

\* The suggestions effect after a render in which query or debouncedQuery
\* changed to q and dq: the cleanup of the previous run clears its timeout,
\* and a new one is armed only if (enableSuggestions && query &&
\* query !== debouncedQuery).
SuggestionsEffect(ts, q, dq) ==
    { t \in ts : t.hook # "suggestions" }
        \cup (IF enableSuggestions /\ q # "" /\ q # dq
              THEN { SuggestionsTimer(q) }
              ELSE {})

\* The hook is mounted with options o.
Mounted(o) ==
    /\ ClockInit /\ ViewIdle /\ CacheInit /\ RecentInit /\ RetryIdle /\ ClassifyIdle
    /\ ret = None
    /\ autoSearch = o.autoSearch /\ enableSuggestions = o.enableSuggestions
    /\ query = "" /\ results = <<>> /\ suggestions = <<>> /\ error = Null
    /\ loading = FALSE /\ hasSearched = FALSE
    /\ debouncedQuery = ""
    /\ timers = { DebounceTimer("", FALSE) }
    /\ calls = {}
    /\ invoked = 0 /\ lastSearch = NoSearch /\ lastWriter = "init"
    /\ keystrokes = 0 /\ cleared = FALSE

\* Spec mounts the hook with the suggestions switched off (enableSuggestions:
\* false), with and without autoSearch.
SearchOptions ==
    { [autoSearch |-> a, enableSuggestions |-> FALSE] : a \in BOOLEAN }

Init == \E o \in SearchOptions : Mounted(o)

\* What performSearch and its continuations may change.
searchEffects ==
    <<results, error, loading, hasSearched, calls, cacheVars, recentVars,
      invoked, lastSearch, lastWriter, ret, cleared>>

\* The search state a response is meant to leave.
Produced(p) ==
    IF p.status = "success"
    THEN [results |-> p.results, error |-> Null]
    ELSE [results |-> <<>>,
          error |-> IF p.message = Undefined THEN "Search failed" ELSE p.message]

\* History: performSearch number seq, for query q, ran to its end; its
\* promise is fulfilled whatever the outcome (the catch block rethrows nothing).
Completed(seq, q, outcome, list, message) ==
    [op |-> "performSearch", seq |-> seq, query |-> q, outcome |-> outcome,
     results |-> list, message |-> message, settled |-> "fulfilled"]

\* SearchReturned appending the response's list to the results on display
SearchReturned_Merge(seq, q, p, errorBefore) ==
    /\ IF p.status = "success"
       THEN /\ results' = results \o p.results
            /\ error' = errorBefore
            /\ ret' = Completed(seq, q, "success", p.results, Null)
            /\ IF Len(p.results) > 0
               THEN /\ storage' = saveRecentSearch(storage, q)
                    /\ saveLog' = Append(saveLog, q)
               ELSE UNCHANGED recentVars
       ELSE /\ error' = Produced(p).error
            /\ results' = <<>>
            /\ ret' = Completed(seq, q, "failed", <<>>, Produced(p).error)
            /\ UNCHANGED recentVars
    /\ hasSearched' = TRUE
    /\ loading' = FALSE
    /\ lastWriter' = "search"

\* performSearch number seq after `await apiService.searchCompanies(...)`
\* returned p; errorBefore is `error` as the state holds it when the
\* continuation runs.
SearchReturned(seq, q, p, errorBefore) ==
    /\ IF p.status = "success"
       THEN /\ results' = p.results
            /\ error' = errorBefore
            /\ ret' = Completed(seq, q, "success", p.results, Null)
            /\ IF Len(p.results) > 0
               THEN /\ storage' = saveRecentSearch(storage, q)
                    /\ saveLog' = Append(saveLog, q)
               ELSE UNCHANGED recentVars
       ELSE /\ error' = Produced(p).error
            /\ results' = <<>>
            /\ ret' = Completed(seq, q, "failed", <<>>, Produced(p).error)
            /\ UNCHANGED recentVars
    /\ hasSearched' = TRUE
    /\ loading' = FALSE
    /\ lastWriter' = "search"

\* SearchThrew leaving the results on display
SearchThrew_KeepResults(seq, q, err) ==
    /\ error' = err.message
    /\ UNCHANGED results
    /\ ret' = Completed(seq, q, "threw", <<>>, err.message)
    /\ hasSearched' = TRUE
    /\ loading' = FALSE
    /\ lastWriter' = "search"
    /\ UNCHANGED recentVars

\* performSearch's catch block for the Error Record err
SearchThrew(seq, q, err) ==
    /\ error' = err.message
    /\ results' = <<>>
    /\ ret' = Completed(seq, q, "threw", <<>>, err.message)
    /\ hasSearched' = TRUE
    /\ loading' = FALSE
    /\ lastWriter' = "search"
    /\ UNCHANGED recentVars

\* performSearch(q), up to its first suspension: the threshold guard, then
\* searchCompanies up to `await retryRequest(...)`, or through to the end of
\* performSearch when the cache answers.
performSearch(q) ==
    /\ invoked < MaxSearches
    /\ invoked' = invoked + 1
    /\ cleared' = FALSE
    /\ IF q = "" \/ Len(q) < MIN_QUERY_LENGTH
       THEN /\ results' = <<>>
            /\ error' = Null
            /\ hasSearched' = FALSE
            /\ lastWriter' = "reset"
            /\ UNCHANGED <<loading, calls, cacheVars, recentVars, lastSearch,
                           ret>>
       ELSE LET key == SearchKey(q, MAX_RESULTS)
                read == getCache(cache, key, SEARCH_TTL)
            IN  /\ cache' = read.cache
                /\ UNCHANGED lastPut
                /\ IF read.value # JSNull
                   THEN /\ SearchReturned(invoked + 1, q, read.value, Null)
                        /\ lastSearch' =
                              [seq |-> invoked + 1, query |-> q, state |-> "done",
                               results |-> Produced(read.value).results,
                               error |-> Produced(read.value).error]
                        /\ UNCHANGED calls
                   ELSE /\ loading' = TRUE
                        /\ error' = Null
                        /\ calls' = calls \cup
                                     { [kind |-> "search", seq |-> invoked + 1,
                                        query |-> q, key |-> key] }
                        /\ lastSearch' =
                              [seq |-> invoked + 1, query |-> q,
                               state |-> "pending", results |-> <<>>,
                               error |-> Null]
                        /\ UNCHANGED <<results, hasSearched, recentVars,
                                       lastWriter, ret>>

\* getSuggestions(q): below the threshold the list is cleared, otherwise
\* apiService.getSearchSuggestions is awaited (no cache, no retryRequest).
getSuggestions(q) ==
    IF ~enableSuggestions \/ q = "" \/ Len(q) < MIN_QUERY_LENGTH
    THEN /\ suggestions' = <<>>
         /\ UNCHANGED <<calls, lastSuggest>>
    ELSE /\ calls' = calls \cup
                      { [kind |-> "suggestions", seq |-> now, query |-> q,
                         key |-> ""] }
         /\ lastSuggest' = [seq |-> now, query |-> q, state |-> "pending",
                            results |-> <<>>]
         /\ UNCHANGED suggestions

\* A keystroke (onChange): setQuery(v), render, then the effects of
\* useDebounce and of the suggestions
SetQuery(v) ==
    /\ v # query
    /\ keystrokes < MaxKeystrokes
    /\ keystrokes' = keystrokes + 1
    /\ query' = v
    /\ cleared' = FALSE
    /\ timers' = SuggestionsEffect(DebounceEffect(timers, v, TRUE), v,
                                   debouncedQuery)
    /\ UNCHANGED <<viewVars, now, classifyVars, fcall, rcall, ret, autoSearch,
                   enableSuggestions, debouncedQuery, suggestions, results,
                   error, loading, hasSearched, calls, cacheVars, recentVars,
                   invoked, lastSearch, lastWriter>>

\* The debounce handler fires: setDebouncedValue(value); when the value
\* changed, the render runs the auto-search effect and the suggestions effect.
DebounceFires(t) ==
    /\ t \in timers
    /\ t.hook = "useDebounce"
    /\ now >= t.at
    /\ IF t.value # debouncedQuery
       THEN /\ debouncedQuery' = t.value
            /\ timers' = SuggestionsEffect(timers \ { t }, query, t.value)
            /\ IF autoSearch /\ t.value # ""
               THEN performSearch(t.value)
               ELSE UNCHANGED searchEffects
       ELSE /\ timers' = timers \ { t }
            /\ UNCHANGED <<debouncedQuery, searchEffects>>
    /\ UNCHANGED <<viewVars, now, classifyVars, fcall, rcall, autoSearch,
                   enableSuggestions, query, suggestions, keystrokes>>

\* The suggestions timeout fires: getSuggestions(query)
SuggestionsFire(t) ==
    /\ t \in timers
    /\ t.hook = "suggestions"
    /\ now >= t.at
    /\ timers' = timers \ { t }
    /\ getSuggestions(t.value)
    /\ UNCHANGED <<validateVars, barVars, dashVars, now, cacheVars, recentVars, classifyVars, fcall, rcall, ret,
                   autoSearch, enableSuggestions, query, results, error,
                   loading, hasSearched, debouncedQuery, invoked, lastSearch,
                   lastWriter, keystrokes, cleared>>

\* search(q): the manual search
Search(q) ==
    /\ performSearch(q)
    /\ UNCHANGED <<viewVars, now, classifyVars, fcall, rcall, autoSearch,
                   enableSuggestions, query, suggestions, debouncedQuery,
                   timers, keystrokes>>

\* clearSearch(): the five setters, then the effects of the render
clearSearch ==
    /\ query' = ""
    /\ results' = <<>>
    /\ suggestions' = <<>>
    /\ error' = Null
    /\ hasSearched' = FALSE
    /\ lastWriter' = "clear"
    /\ cleared' = TRUE
    /\ timers' = IF query # ""
                 THEN SuggestionsEffect(DebounceEffect(timers, "", FALSE), "",
                                        debouncedQuery)
                 ELSE timers
    /\ UNCHANGED <<ret, debouncedQuery, loading, calls, cacheVars, recentVars,
                   invoked, lastSearch>>

\* clearSearch() called on a state it changes
ClearSearch ==
    /\ \/ query # "" \/ results # <<>> \/ suggestions # <<>>
       \/ error # Null \/ hasSearched
    /\ clearSearch
    /\ UNCHANGED <<viewVars, now, classifyVars, fcall, rcall, autoSearch,
                   enableSuggestions, keystrokes>>

\* The search of call c is over for the history: what it was meant to leave.
Settle(c, produced) ==
    lastSearch' =
        IF lastSearch.seq = c.seq
        THEN [lastSearch EXCEPT !.state = "done",
                                !.results = produced.results,
                                !.error = produced.error]
        ELSE lastSearch

\* retryRequest resolved with payload p: searchCompanies caches a success
\* and returns p to performSearch.
SearchResolved(c, p) ==
    /\ c \in calls
    /\ c.kind = "search"
    /\ calls' = calls \ { c }
    /\ IF p.status = "success"
       THEN /\ cache' = setCache(cache, c.key, p, SEARCH_TTL)
            /\ lastPut' = MapSet(lastPut, c.key,
                                 [data |-> p, at |-> now, ttl |-> SEARCH_TTL])
       ELSE UNCHANGED cacheVars
    /\ SearchReturned(c.seq, c.query, p, error)
    /\ Settle(c, Produced(p))

SearchResolves(c, p) ==
    /\ SearchResolved(c, p)
    /\ UNCHANGED <<viewVars, now, classifyVars, fcall, rcall, autoSearch,
                   enableSuggestions, query, suggestions, debouncedQuery,
                   timers, invoked, keystrokes, cleared>>

\* retryRequest rejected with the Error Record of failure f: searchCompanies
\* propagates it to performSearch's catch block.
SearchRejected(c, f) ==
    /\ c \in calls
    /\ c.kind = "search"
    /\ calls' = calls \ { c }
    /\ SearchThrew(c.seq, c.query, InterceptFailure(f))
    /\ Settle(c, [results |-> <<>>, error |-> InterceptFailure(f).message])
    /\ UNCHANGED cacheVars

SearchRejects(c, f) ==
    /\ SearchRejected(c, f)
    /\ UNCHANGED <<viewVars, now, classifyVars, fcall, rcall, autoSearch,
                   enableSuggestions, query, suggestions, debouncedQuery,
                   timers, invoked, keystrokes, cleared>>

\* The request of call c is over for the history: the list its response
\* holds (none when it failed).
SettleSuggestions(c, list) ==
    lastSuggest' =
        IF lastSuggest.seq = c.seq
        THEN [lastSuggest EXCEPT !.state = "done", !.results = list]
        ELSE lastSuggest

\* getSearchSuggestions resolved with payload p: a 'success' replaces the
\* suggestions, any other status leaves them.
SuggestionsResolve(c, p) ==
    /\ c \in calls
    /\ c.kind = "suggestions"
    /\ calls' = calls \ { c }
    /\ IF p.status = "success"
       THEN suggestions' = p.results
       ELSE UNCHANGED suggestions
    /\ SettleSuggestions(c, IF p.status = "success" THEN p.results ELSE <<>>)
    /\ UNCHANGED <<validateVars, barVars, dashVars, now, cacheVars, recentVars, classifyVars, fcall, rcall, ret,
                   autoSearch, enableSuggestions, query, results, error,
                   loading, hasSearched, debouncedQuery, timers, invoked,
                   lastSearch, lastWriter, keystrokes, cleared>>

\* getSearchSuggestions rejected: the catch block of getSuggestions
SuggestionsReject(c) ==
    /\ c \in calls
    /\ c.kind = "suggestions"
    /\ calls' = calls \ { c }
    /\ suggestions' = <<>>
    /\ SettleSuggestions(c, <<>>)
    /\ UNCHANGED <<validateVars, barVars, dashVars, now, cacheVars, recentVars, classifyVars, fcall, rcall, ret,
                   autoSearch, enableSuggestions, query, results, error,
                   loading, hasSearched, debouncedQuery, timers, invoked,
                   lastSearch, lastWriter, keystrokes, cleared>>

\* Time passes while a timer is pending, never beyond it.  (With no timer
\* pending nothing of the hook depends on the time.)
HookTick(d) ==
    /\ timers # {}
    /\ \A t \in timers : now + d <= t.at
    /\ now + d <= MaxHookNow
    /\ now' = now + d
    /\ UNCHANGED <<viewVars, cacheVars, recentVars, classifyVars, fcall, rcall, ret,
                   hookVars>>

Next ==
    \/ \E v \in Queries : SetQuery(v)
    \/ \E t \in timers : DebounceFires(t)
    \/ \E q \in Queries : Search(q)
    \/ ClearSearch
    \/ \E c \in calls : \E p \in BackendPayloads(c.query) : SearchResolves(c, p)
    \/ \E c \in calls : \E f \in HookFailures : SearchRejects(c, f)
    \/ \E d \in HookDeltas : HookTick(d)

Spec == Init /\ [][Next]_vars

----------------------------------------------------------------------------
(* SpecSuggest: useCompanySearch with the suggestions switched on, while    *)
(* the searches it issues stay in flight                                    *)

SuggestOptions ==
    { [autoSearch |-> a, enableSuggestions |-> TRUE] : a \in BOOLEAN }

\* Time steps of the suggestions specification.
SuggestDeltas == { 100 }

InitSuggest == \E o \in SuggestOptions : Mounted(o)

NextSuggest ==
    \/ \E v \in Queries : SetQuery(v)
    \/ \E t \in timers : DebounceFires(t)
    \/ \E t \in timers : SuggestionsFire(t)
    \/ ClearSearch
    \/ \E c \in calls : \E p \in SuggestionPayloads(c.query) :
          SuggestionsResolve(c, p)
    \/ \E c \in calls : SuggestionsReject(c)
    \/ \E d \in SuggestDeltas : HookTick(d)

SpecSuggest == InitSuggest /\ [][NextSuggest]_vars

----------------------------------------------------------------------------
(* SpecBar: the SearchBar component over useCompanySearch({autoSearch:      *)
(* false, enableSuggestions: showSuggestions}), with showSuggestions and    *)
(* showRecentSearches true as Dashboard mounts it.  A handler runs with the *)
(* values of the last render: query, isValidQuery and results are those of  *)
(* the state in which the handler is called.  The dropdown is taken as open *)
(* whenever it has entries to show (focus and blur are not modelled).       *)

\* The dropdown entries selected are at most MaxSelections, the keystrokes
\* at most MaxBarKeystrokes, and time stops at MaxBarNow.
MaxSelections == 1
MaxBarKeystrokes == 2
MaxBarNow == 300

\* The recent searches the dropdown lists: recentSearches.slice(0, 5)
RECENT_SHOWN == 5

\* onSearchResult({query, results, hasResults: results.length > 0,
\* error: null}) in the try block of handleSearch; `shown` is `results` of the
\* render handleSearch was called in.
SearchEvent(q, shown) ==
    [query |-> q, results |-> shown, hasResults |-> Len(shown) > 0,
     error |-> Null, sent |-> TRUE]

\* onSearchResult of handleClear
ClearedEvent ==
    [query |-> "", results |-> <<>>, hasResults |-> FALSE, error |-> Null,
     sent |-> TRUE]

\* handleSearch(q): the guard `!searchQuery.trim() || !isValidQuery`, then
\* `await search(q)`; when the search is over without a request (cache) the
\* rest of the try block runs at once.
handleSearch(q) ==
    IF q = "" \/ Len(query) < MIN_QUERY_LENGTH
    THEN UNCHANGED <<searchEffects, awaiting, notified, recentSearches>>
    ELSE /\ performSearch(q)
         /\ IF calls' # calls
            THEN /\ awaiting' = awaiting \cup
                                 { [seq |-> invoked + 1, query |-> q,
                                    results |-> results] }
                 /\ UNCHANGED <<notified, recentSearches>>
            ELSE /\ notified' = SearchEvent(q, results)
                 /\ recentSearches' = getRecentSearches(storage')
                 /\ UNCHANGED awaiting

\* handleSearch after `await search(searchQuery)` for call c: performSearch
\* never rejects, so the try block goes on: setRecentSearches, onSearchResult.
handleSearchResumes(c) ==
    LET h == CHOOSE a \in awaiting : a.seq = c.seq
    IN  /\ awaiting' = awaiting \ { h }
        /\ notified' = SearchEvent(h.query, h.results)
        /\ recentSearches' = getRecentSearches(storage')

\* handleInputChange: the input is disabled while loading
HandleInputChange(v) ==
    /\ ~loading
    /\ keystrokes < MaxBarKeystrokes
    /\ SetQuery(v)

\* handleKeyDown with Enter, or the Search button: handleSearch() on `query`
HandleEnter ==
    /\ ~loading
    /\ Len(query) >= MIN_QUERY_LENGTH
    /\ handleSearch(query)
    /\ UNCHANGED <<validateVars, lastSuggest, dashVars, picked, now, classifyVars, fcall,
                   rcall, autoSearch, enableSuggestions, query, suggestions,
                   debouncedQuery, timers, keystrokes>>

\* handleSuggestionSelect / handleRecentSearchSelect: setQuery(text), then
\* handleSearch(text) of the same render.
Select(text) ==
    /\ picked.n < MaxSelections
    /\ picked' = [n |-> picked.n + 1, text |-> text]
    /\ query' = text
    /\ timers' = IF text # query
                 THEN SuggestionsEffect(DebounceEffect(timers, text, FALSE),
                                        text, debouncedQuery)
                 ELSE timers
    /\ handleSearch(text)
    /\ UNCHANGED <<validateVars, lastSuggest, dashVars, now, classifyVars, fcall, rcall,
                   autoSearch, enableSuggestions, suggestions, debouncedQuery,
                   keystrokes>>

\* A suggestion of the dropdown is clicked.
SelectSuggestion(text) ==
    /\ enableSuggestions
    /\ text \in Range(suggestions)
    /\ Select(text)

\* An entry of the recent searches is clicked; the list is rendered only
\* while the input is empty (!query.trim()).
SelectRecent(text) ==
    /\ query = ""
    /\ text \in Range(SliceFromStart(recentSearches, RECENT_SHOWN))
    /\ Select(text)

\* handleClear: the button is rendered when query is set and not loading.
HandleClear ==
    /\ query # "" /\ ~loading
    /\ clearSearch
    /\ notified' = ClearedEvent
    /\ UNCHANGED <<validateVars, lastSuggest, dashVars, awaiting, recentSearches, picked,
                   now, classifyVars, fcall, rcall, autoSearch,
                   enableSuggestions, keystrokes>>

BarSearchResolves(c, p) ==
    /\ SearchResolved(c, p)
    /\ handleSearchResumes(c)
    /\ UNCHANGED <<validateVars, lastSuggest, dashVars, picked, now, classifyVars, fcall,
                   rcall, autoSearch, enableSuggestions, query, suggestions,
                   debouncedQuery, timers, invoked, keystrokes, cleared>>

BarSearchRejects(c, f) ==
    /\ SearchRejected(c, f)
    /\ handleSearchResumes(c)
    /\ UNCHANGED <<validateVars, lastSuggest, dashVars, picked, now, classifyVars, fcall,
                   rcall, autoSearch, enableSuggestions, query, suggestions,
                   debouncedQuery, timers, invoked, keystrokes, cleared>>

\* Time passes while a timer of the hook is pending.
BarTick(d) ==
    /\ now + d <= MaxBarNow
    /\ HookTick(d)

BarOptions == { [autoSearch |-> FALSE, enableSuggestions |-> TRUE] }

InitBar == \E o \in BarOptions : Mounted(o)

NextBar ==
    \/ \E v \in Queries : HandleInputChange(v)
    \/ \E t \in timers : DebounceFires(t)
    \/ \E t \in timers : SuggestionsFire(t)
    \/ HandleEnter
    \/ \E text \in Queries : SelectSuggestion(text)
    \/ \E text \in Queries : SelectRecent(text)
    \/ HandleClear
    \/ \E c \in calls : \E p \in BackendPayloads(c.query) :
          BarSearchResolves(c, p)
    \/ \E c \in calls : \E f \in HookFailures : BarSearchRejects(c, f)
    \/ \E c \in calls : \E p \in SuggestionPayloads(c.query) :
          SuggestionsResolve(c, p)
    \/ \E c \in calls : SuggestionsReject(c)
    \/ \E d \in SuggestDeltas : BarTick(d)

SpecBar == InitBar /\ [][NextBar]_vars

----------------------------------------------------------------------------
(* SpecDash: the Dashboard component, which receives the events of          *)
(* SearchBar and looks the company up with apiService.lookupCompany.  A     *)
(* lookup is in flight while it awaits retryRequest, whose attempts are     *)
(* SpecRetry's: here it ends with a payload or with the Error Record of its *)
(* last attempt.                                                           *)

\* Dashboard handles at most MaxEvents events, up to the instant MaxDashNow.
MaxEvents == 3
MaxDashNow == 700000

\* The events SearchBar passes to onSearchResult.
DashEvents ==
    { SearchEvent(q, shown) : q \in { "TS", "TSL" },
                              shown \in { <<>>, <<"TS">> } }
        \cup { ClearedEvent }

\* response.data of GET /company/lookup for q (its data stands in `results`).
LookupPayloads(q) == { Success(<<q>>), Failed("Company not found") }
LookupFailures == { NoResponse, Response(SERVICE_UNAVAILABLE, Undefined, Undefined) }

\* setSearchState(prev => ({...prev, error: message || 'Failed to load
\* company details'}))
WithError(status, message) ==
    [status EXCEPT !.error = IF message = Undefined
                             THEN "Failed to load company details"
                             ELSE message]

\* handleSearchResult after `await apiService.lookupCompany(query)` returned
\* `response`, through the finally block
LookupReturned(l, response) ==
    /\ IF response.status = "success"
       THEN /\ companyData' = response.results
            /\ UNCHANGED searchStatus
       ELSE /\ searchStatus' = WithError(searchStatus, response.message)
            /\ UNCHANGED companyData
    /\ loadingDetails' = FALSE

\* handleSearchResult(e), up to its first suspension: setSearchState, then
\* the lookup up to `await retryRequest(...)`, or through to the end of the
\* handler when the cache answers; without results setCompanyData(null).
HandleSearchResult(e) ==
    /\ lastEvent.n < MaxEvents
    /\ lastEvent' = [n |-> lastEvent.n + 1, kind |-> "result",
                     query |-> e.query, hasResults |-> e.hasResults]
    /\ LET shown == [query |-> e.query, loading |-> FALSE, error |-> e.error,
                     hasSearched |-> TRUE]
           key == LookupKey(e.query, TRUE, TRUE, 5)
           read == getCache(cache, key, COMPANY_TTL)
           l == [seq |-> lastEvent.n + 1, query |-> e.query, key |-> key]
       IN  IF e.hasResults /\ Len(e.results) > 0
           THEN /\ cache' = read.cache
                /\ IF read.value # JSNull
                   THEN /\ companyData' = read.value.results
                        /\ searchStatus' = shown
                        /\ loadingDetails' = FALSE
                        /\ UNCHANGED lookups
                   ELSE /\ searchStatus' = shown
                        /\ loadingDetails' = TRUE
                        /\ lookups' = lookups \cup { l }
                        /\ UNCHANGED companyData
           ELSE /\ searchStatus' = shown
                /\ companyData' = NoData
                /\ UNCHANGED <<cache, loadingDetails, lookups>>
    /\ UNCHANGED <<validateVars, lastSuggest, barVars, now, lastPut,
                   recentVars, classifyVars, fcall, rcall, ret, hookVars>>

\* retryRequest resolved with payload p: lookupCompany caches a success and
\* returns p to handleSearchResult.
LookupResolves(l, p) ==
    /\ l \in lookups
    /\ lookups' = lookups \ { l }
    /\ IF p.status = "success"
       THEN /\ cache' = setCache(cache, l.key, p, COMPANY_TTL)
            /\ lastPut' = MapSet(lastPut, l.key,
                                 [data |-> p, at |-> now, ttl |-> COMPANY_TTL])
       ELSE UNCHANGED cacheVars
    /\ LookupReturned(l, p)
    /\ UNCHANGED <<validateVars, lastSuggest, barVars, lastEvent, now,
                   recentVars, classifyVars, fcall, rcall, ret, hookVars>>

\* retryRequest rejected: the catch block of handleSearchResult, then finally
LookupRejects(l, f) ==
    /\ l \in lookups
    /\ lookups' = lookups \ { l }
    /\ searchStatus' = WithError(searchStatus, InterceptFailure(f).message)
    /\ loadingDetails' = FALSE
    /\ UNCHANGED <<validateVars, lastSuggest, barVars, companyData, lastEvent,
                   now, cacheVars, recentVars, classifyVars, fcall, rcall, ret,
                   hookVars>>

\* The error panel, with its Try Again and Clear Search buttons, is rendered
\* when searchState.error && !loadingDetails.
ErrorShown == searchStatus.error # Null /\ ~loadingDetails

\* clearResults
ClearResults ==
    /\ ErrorShown
    /\ searchStatus' = SearchStatusInit
    /\ companyData' = NoData
    /\ lastEvent' = [lastEvent EXCEPT !.kind = "cleared"]
    /\ UNCHANGED <<validateVars, lastSuggest, barVars, loadingDetails, lookups,
                   now, cacheVars, recentVars, classifyVars, fcall, rcall, ret,
                   hookVars>>

\* handleRetrySearch
HandleRetrySearch ==
    /\ ErrorShown
    /\ searchStatus.query # ""
    /\ searchStatus' = [searchStatus EXCEPT !.loading = TRUE, !.error = Null]
    /\ UNCHANGED <<validateVars, lastSuggest, barVars, companyData,
                   loadingDetails, lookups, lastEvent, now, cacheVars,
                   recentVars, classifyVars, fcall, rcall, ret, hookVars>>

\* Time passes up to the expiry of a cached lookup.
DashExpiryTick(k, early) ==
    /\ k \in DOMAIN lastPut
    /\ LET t == lastPut[k].at + lastPut[k].ttl - early
       IN  /\ t > now
           /\ t <= MaxDashNow
           /\ now' = t
    /\ UNCHANGED <<viewVars, cacheVars, recentVars, classifyVars, fcall, rcall,
                   ret, hookVars>>

InitDash ==
    /\ ClockInit /\ ViewIdle /\ CacheInit /\ RecentInit /\ RetryIdle /\ ClassifyIdle
    /\ HookIdle
    /\ ret = None

NextDash ==
    \/ \E e \in DashEvents : HandleSearchResult(e)
    \/ \E l \in lookups : \E p \in LookupPayloads(l.query) : LookupResolves(l, p)
    \/ \E l \in lookups : \E f \in LookupFailures : LookupRejects(l, f)
    \/ ClearResults
    \/ HandleRetrySearch
    \/ \E k \in DOMAIN lastPut, early \in { 0, 1 } : DashExpiryTick(k, early)

SpecDash == InitDash /\ [][NextDash]_vars

----------------------------------------------------------------------------
(* SpecValidate: utils/validators validateSearchQuery and utils/formatters *)
(* formatSearchQuery (src/unnamed/part_004).  Here a text is the sequence   *)
(* of its characters.                                                       *)

MAX_QUERY_LENGTH == 100

\* \s and \w of the regular expressions, and the folding of the /i flag.
IsSpace(c) == c \in { " ", "\t" }
IsWord(c) == ~IsSpace(c) /\ c \notin { "=", "<", ">", ":" }
Lower(c) == IF c = "O" THEN "o" ELSE c

\* String.prototype.trim: from the first to the last character that is not
\* white space.
Inked(s) == { i \in 1..Len(s) : ~IsSpace(s[i]) }
First(idx) == CHOOSE i \in idx : \A j \in idx : i <= j
Last(idx) == CHOOSE i \in idx : \A j \in idx : j <= i

trimStart(s) ==
    IF Inked(s) = {} THEN <<>> ELSE SubSeq(s, First(Inked(s)), Len(s))

trimEnd(s) ==
    IF Inked(s) = {} THEN <<>> ELSE SubSeq(s, 1, Last(Inked(s)))

trim(s) == trimEnd(trimStart(s))

\* s.replace(/\s+/g, ' '): every maximal run of white space becomes one blank,
\* which stands where the run started.
collapseSpaces(s) ==
    LET kept == { i \in 1..Len(s) :
                    ~IsSpace(s[i]) \/ i = 1 \/ ~IsSpace(s[i - 1]) }
        at(k) == CHOOSE i \in kept : Cardinality({ j \in kept : j <= i }) = k
    IN  [k \in 1..Cardinality(kept) |->
            IF IsSpace(s[at(k)]) THEN " " ELSE s[at(k)]]

formatSearchQuery(q) ==
    IF q = <<>> THEN <<>> ELSE collapseSpaces(trim(q))

\* pattern.test(s) for a literal, case-insensitive pattern starting at i.
LiteralAt(s, i, word) ==
    /\ i + Len(word) - 1 <= Len(s)
    /\ \A j \in 1..Len(word) : Lower(s[i + j - 1]) = word[j]

\* /<tag[^>]*>/i
OpensTag(s, tag) ==
    \E i \in 1..Len(s) :
        /\ LiteralAt(s, i, tag)
        /\ \E k \in (i + Len(tag))..Len(s) : s[k] = ">"

\* /on\w+\s*=/i
SetsHandler(s) ==
    \E i \in 1..Len(s) :
        /\ LiteralAt(s, i, <<"o", "n">>)
        /\ \E j \in (i + 2)..Len(s) : \E k \in (j + 1)..Len(s) :
              /\ \A w \in (i + 2)..j : IsWord(s[w])
              /\ \A b \in (j + 1)..(k - 1) : IsSpace(s[b])
              /\ s[k] = "="

suspiciousPatterns(s) ==
    \/ OpensTag(s, <<"<", "s", "c", "r", "i", "p", "t">>)
    \/ \E i \in 1..Len(s) :
          LiteralAt(s, i, <<"j", "a", "v", "a", "s", "c", "r", "i", "p", "t",
                            ":">>)
    \/ SetsHandler(s)
    \/ OpensTag(s, <<"<", "i", "f", "r", "a", "m", "e">>)

Invalid(message) == [isValid |-> FALSE, value |-> <<>>, error |-> message]
Valid(text) == [isValid |-> TRUE, value |-> text, error |-> ""]

validators_validateSearchQuery_Strip(q) ==
    LET queryStr == SelectSeq(q, LAMBDA c : ~IsSpace(c)) IN
    IF q = <<>> THEN Invalid("Search query is required")
    ELSE IF Len(queryStr) < MIN_QUERY_LENGTH
    THEN Invalid("Query must be at least 2 characters")
    ELSE IF Len(queryStr) > MAX_QUERY_LENGTH
    THEN Invalid("Query cannot exceed 100 characters")
    ELSE IF suspiciousPatterns(queryStr)
    THEN Invalid("Query contains invalid characters")
    ELSE Valid(queryStr)

\* validateSearchQuery of utils/validators (ApiService has a method of the
\* same name, modelled above as a facade operation).
validators_validateSearchQuery(q) ==
    LET queryStr == trim(q) IN
    IF q = <<>> THEN Invalid("Search query is required")
    ELSE IF Len(queryStr) < MIN_QUERY_LENGTH
    THEN Invalid("Query must be at least 2 characters")
    ELSE IF Len(queryStr) > MAX_QUERY_LENGTH
    THEN Invalid("Query cannot exceed 100 characters")
    ELSE IF suspiciousPatterns(queryStr)
    THEN Invalid("Query contains invalid characters")
    ELSE Valid(queryStr)

\* The texts tried: every text of at most MaxTyped characters over Typed,
\* and texts around the length limit and the longer patterns.
Typed == { " ", "\t", "a", "n", "o", "O", "=" }
MaxTyped == 4
MaxRounds == 2

Repeated(c, n) == [i \in 1..n |-> c]

LongTexts ==
    { Repeated("a", MAX_QUERY_LENGTH),
      Repeated("a", MAX_QUERY_LENGTH + 1),
      <<" ">> \o Repeated("a", MAX_QUERY_LENGTH) \o <<"\t">>,
      <<"a">> \o Repeated(" ", MAX_QUERY_LENGTH - 2) \o <<"a">>,
      <<"<", "s", "c", "r", "i", "p", "t", ">">>,
      <<"<", "s", "c", "r", "i", "p", "t">>,
      <<"<", "i", "f", "r", "a", "m", "e", " ", "a", ">">>,
      <<"j", "a", "v", "a", "s", "c", "r", "i", "p", "t", ":", "a">>,
      <<"j", "a", "v", "a", "s", "c", "r", "i", "p", "t">> }

Texts ==
    UNION { [1..n -> Typed] : n \in 0..MaxTyped } \cup LongTexts

InitValidate ==
    /\ ClockInit /\ CacheInit /\ RecentInit /\ RetryIdle /\ ClassifyIdle
    /\ HookIdle /\ SuggestIdle /\ BarIdle /\ DashIdle
    /\ ret = None
    /\ candidate \in Texts
    /\ validated = <<>>

\* The text is validated; an accepted text's returned value is validated
\* again.
Validate ==
    /\ validated = <<>>
    /\ validated' = <<validators_validateSearchQuery(candidate)>>
    /\ UNCHANGED <<candidate, lastSuggest, barVars, dashVars, now, cacheVars, recentVars, classifyVars, fcall,
                   rcall, ret, hookVars>>

ValidateAgain ==
    /\ validated # <<>>
    /\ Len(validated) < MaxRounds
    /\ validated[Len(validated)].isValid
    /\ validated' =
          Append(validated,
                 validators_validateSearchQuery(validated[Len(validated)].value))
    /\ UNCHANGED <<candidate, lastSuggest, barVars, dashVars, now, cacheVars, recentVars, classifyVars, fcall,
                   rcall, ret, hookVars>>

NextValidate ==
    \/ Validate
    \/ ValidateAgain

SpecValidate == InitValidate /\ [][NextValidate]_vars

----------------------------------------------------------------------------
(* Claims about transformError and retryRequest                            *)

Running == rcall.phase \in { "request", "backoff" }
Rejected == ret.op = "retryRequest" /\ ret.outcome = "rejected"

\* The failures the retry policy must treat as terminal.
TerminalFailure(err) ==
    \/ err.type \in { "VALIDATION_ERROR", "NOT_FOUND" }
    \/ (err.originalError.hasResponse /\ err.originalError.status = 400)

\* C4: retryRequest never re-issues a request whose failure is
\* VALIDATION_ERROR, NOT_FOUND or HTTP 400.  The loop is never found running
\* (waiting for a backoff or for a further attempt) after such a failure, and
\* the call that such a failure ended rejected with that very error, at the
\* attempt that failed: no further requestFn call, no backoff armed for it.
C4_NoRetryOnTerminal ==
    /\ Running /\ rcall.kinds # {}
          => ~TerminalFailure(rcall.lastError)
    /\ Running
          => rcall.kinds \cap { "VALIDATION_ERROR", "NOT_FOUND" } = {}
    /\ Rejected /\ TerminalFailure(ret.call.lastError)
          => /\ ret.error = ret.call.lastError
             /\ ret.call.requests = ret.call.attempt
             /\ Len(ret.call.delays) = ret.call.attempt - 1
             /\ ret.call.phase = "request"

\* C4 witness: a NOT_FOUND at the second attempt ended the call at once.
C4_Witness ==
    /\ Rejected
    /\ ret.error.type = "NOT_FOUND"
    /\ ret.call.attempt = 2 /\ ret.call.requests = 2
    /\ ret.call.maxRetries = RETRY_ATTEMPTS

RetriedKinds == { "SERVER_ERROR", "NETWORK_ERROR", "API_ERROR" }

\* C5: when every attempt fails with SERVER_ERROR (or NETWORK_ERROR, or
\* API_ERROR), requestFn is called exactly maxRetries times and the call
\* rejects with the Error Record of the last attempt; while the loop runs the
\* number of requestFn calls is the attempt number and never exceeds maxRetries.
C5_RetryCeiling ==
    /\ Running => rcall.requests = rcall.attempt
                    /\ rcall.attempt <= rcall.maxRetries
    /\ Rejected /\ ret.call.kinds # {} /\ ret.call.kinds \subseteq RetriedKinds
          => /\ ret.call.requests = ret.call.maxRetries
             /\ ret.error = ret.call.lastError

\* C5 witness: three SERVER_ERROR failures with the default ceiling.
C5_Witness ==
    /\ Rejected
    /\ ret.call.kinds = { "SERVER_ERROR" }
    /\ ret.call.maxRetries = RETRY_ATTEMPTS
    /\ ret.call.requests = 3
    /\ ret.error.type = "SERVER_ERROR"

\* The delays of a call are 1000 * 2^(n-1) for the wait after attempt n.
ExponentialDelays(c) ==
    \A n \in 1..Len(c.delays) : c.delays[n] = 1000 * 2^(n - 1)

\* C6: the wait between failed attempt n and attempt n+1 is 1000 * 2^(n-1) ms
\* for every n < maxRetries, and no wait follows the final failed attempt:
\* a finished call has waited once less than it has called requestFn.
C6_BackoffDelays ==
    /\ Running
          => /\ ExponentialDelays(rcall)
             /\ Len(rcall.delays) <= rcall.maxRetries - 1
             /\ rcall.phase = "backoff"
                   => /\ Len(rcall.delays) = rcall.attempt
                      /\ rcall.timer <= now + 1000 * 2^(rcall.attempt - 1)
             /\ rcall.phase = "request"
                   => Len(rcall.delays) = rcall.attempt - 1
    /\ ret.op = "retryRequest"
          => /\ ExponentialDelays(ret.call)
             /\ Len(ret.call.delays) = ret.call.requests - 1

\* C6 witness: a call with four attempts waited 1000, 2000 and 4000 ms.
C6_Witness ==
    /\ Rejected
    /\ ret.call.delays = <<1000, 2000, 4000>>
    /\ now >= 7000

\* C7: a request that fails with RATE_LIMIT is not retried: the loop is never
\* found running after a RATE_LIMIT failure, and a call whose failures were
\* RATE_LIMIT called requestFn exactly once and rejected with that record.
C7_RateLimitNotRetried ==
    /\ Running => "RATE_LIMIT" \notin rcall.kinds
    /\ Rejected /\ ret.call.kinds = { "RATE_LIMIT" }
          => /\ ret.call.requests = 1
             /\ ret.error.type = "RATE_LIMIT"
             /\ ret.error.retryAfter = ret.error.originalError.retryAfter

\* The classification table of the taxonomy, by (hasResponse, status).
KindOf(e) ==
    IF ~e.hasResponse THEN "NETWORK_ERROR"
    ELSE IF e.status = 400 THEN "VALIDATION_ERROR"
    ELSE IF e.status = 404 THEN "NOT_FOUND"
    ELSE IF e.status = 429 THEN "RATE_LIMIT"
    ELSE IF e.status \in { 500, 502, 503, 504 } THEN "SERVER_ERROR"
    ELSE "API_ERROR"

\* C8: transformError maps every (hasResponse, status) to the kind of the
\* table, a member of the closed taxonomy, whatever message and retry-after
\* header the failure carries; the record keeps the failure it was built from.
C8_Classification ==
    classified # None
        => /\ classified.type = KindOf(input)
           /\ classified.type \in ERROR_TYPES
           /\ classified.originalError = input

\* C8 witness: a 504 with a server message was classified SERVER_ERROR.
C8_Witness ==
    /\ classified # None
    /\ input.hasResponse /\ input.status = 504
    /\ input.message # Undefined
    /\ classified.type = "SERVER_ERROR"

----------------------------------------------------------------------------
(* Claims about the recent-search store                                    *)

RecentList == getRecentSearches(storage)

NoDuplicates(list) ==
    \A i, j \in 1..Len(list) : list[i] = list[j] => i = j

Smaller(a, b) == IF a < b THEN a ELSE b

LastSave(q) ==
    LET at == { n \in 1..Len(saveLog) : saveLog[n] = q }
    IN  IF at = {} THEN 0 ELSE CHOOSE n \in at : \A m \in at : m <= n

----------------------------------------------------------------------------
(* Claims about the response cache                                         *)

\* C3: getCache(k, ttl) after setCache(k, v, ttl), with no other put and no
\* clear in between, returns v when less than ttl ms have passed since the put
\* and null when ttl ms or more have passed; a key never put since the last
\* clear reads null.
C3_GetAfterPut ==
    ret.op = "getCache"
        => IF ret.key \in DOMAIN lastPut
           THEN LET put == lastPut[ret.key]
                IN  /\ put.ttl = ret.ttl
                    /\ ret.at - put.at < ret.ttl => ret.value = put.data
                    /\ ret.at - put.at >= ret.ttl => ret.value = JSNull
           ELSE ret.value = JSNull

\* C3 witness: a read exactly ttl ms after the put returned null, where the
\* put had stored a payload.
C3_Witness ==
    /\ ret.op = "getCache"
    /\ ret.key \in DOMAIN lastPut
    /\ ret.at - lastPut[ret.key].at = ret.ttl
    /\ ret.value = JSNull
    /\ lastPut[ret.key].data # JSNull

\* C3 second witness: a read one ms before expiry returned the payload.
C3_WitnessValid ==
    /\ ret.op = "getCache"
    /\ ret.key \in DOMAIN lastPut
    /\ ret.at - lastPut[ret.key].at = ret.ttl - 1
    /\ ret.value = lastPut[ret.key].data

\* The entry of key k is stale: now - timestamp >= ttl.
Stale(k) == now - cache[k].timestamp >= cache[k].ttl

\* getCacheStats() counts an entry for key k.
Counted(k) == \E e \in getCacheStats(cache).entries : e.key = k

\* The step is a getCache on key k.
GetCacheStep(k) ==
    /\ ret' # ret
    /\ ret'.op = "getCache"
    /\ ret'.key = k

\* C19: expiry is lazy.  A getCache on a key whose entry is stale returns
\* null and removes that entry and no other, so getCacheStats counts one
\* entry less; a getCache that finds a valid entry removes nothing; and an
\* entry leaves the cache only by such a getCache or by clearCache, never by
\* time passing.
C19_LazyExpiry ==
    [][/\ \A k \in DOMAIN cache :
            /\ (GetCacheStep(k) /\ Stale(k))
                  => /\ ret'.value = JSNull
                     /\ cache' = MapDelete(cache, k)
                     /\ ~Counted(k)'
                     /\ getCacheStats(cache)'.size
                            = getCacheStats(cache).size - 1
            /\ (GetCacheStep(k) /\ ~Stale(k))
                  => /\ ret'.value = cache[k].data
                     /\ cache' = cache
            /\ k \notin DOMAIN cache'
                  => \/ cache' = clearCache(cache) /\ lastPut' = <<>>
                     \/ GetCacheStep(k) /\ Stale(k) /\ now' = now
       /\ now' # now => cache' = cache]_vars

\* A getCache found the entry of its key stale, returned null and removed it,
\* while the entry of another key stays in the cache.
C19_Witness ==
    /\ ret.op = "getCache"
    /\ ret.value = JSNull
    /\ ret.key \in DOMAIN lastPut
    /\ ret.at - lastPut[ret.key].at >= ret.ttl
    /\ ret.key \notin DOMAIN cache
    /\ getCacheStats(cache).size = 1

----------------------------------------------------------------------------
(* Claims about the operations of ApiService                                *)

EntriesSuccessful ==
    \A k \in DOMAIN cache : cache[k].data.status = "success"

\* The step writes the entry of key k.
Written(k) ==
    k \in DOMAIN cache' /\ (k \notin DOMAIN cache \/ cache'[k] # cache[k])

\* C12: the cache is written only after a successful response: every entry
\* holds a payload of status 'success', and a step writes an entry only as an
\* operation returns a 'success' payload, under the key of that operation; an
\* operation ending in a rejection or another status writes nothing.
C12_CachedOnlyOnSuccess ==
    /\ []EntriesSuccessful
    /\ [][\A k \in DOMAIN cache' :
            Written(k) => /\ ret' # None
                          /\ ret' # ret
                          /\ ret'.outcome = "returned"
                          /\ ret'.value.status = "success"
                          /\ k = ret'.key]_vars

\* A cached operation, called with the cache enabled, has returned a payload
\* whose status is not 'success', and its key has no entry.
C12_Witness ==
    /\ ret # None
    /\ ret.cached /\ ret.useCache
    /\ ret.outcome = "returned"
    /\ ret.value.status # "success"
    /\ ret.key \notin DOMAIN cache

BatchRunning == fcall.name = "getBatchStockQuotes"

\* C13: getBatchStockQuotes never reads or writes the cache, whatever
\* useCache is: while it runs its request is in retryRequest, no step of it
\* changes the cache, and it never returns without having issued a request.
C13_BatchBypassesCache ==
    /\ [](BatchRunning => rcall.phase \in { "request", "backoff" })
    /\ []((ret # None /\ ret.op = "getBatchStockQuotes")
            => (~ret.fromCache /\ ret.requests >= 1))
    /\ [][(BatchRunning \/ BatchRunning') => cache' = cache]_vars

\* getBatchStockQuotes({useCache: true}) has returned a 'success' payload
\* while the cache holds entries of other operations.
C13_Witness ==
    /\ ret # None
    /\ ret.op = "getBatchStockQuotes"
    /\ ret.useCache
    /\ ret.outcome = "returned" /\ ret.value.status = "success"
    /\ ret.requests >= 1
    /\ cache # <<>>

\* The read operations the template is stated for.
TemplateOperations ==
    { "searchCompanies", "getSearchSuggestions", "validateSearchQuery",
      "lookupCompany", "getStockQuote", "getCompanyFilings" }

\* C14: every read operation follows the template: a 'success' payload
\* fetched with the cache enabled is stored under the operation's key, and a
\* request failing by a network or server error is attempted RETRY_ATTEMPTS
\* times before the Error Record is propagated.
C14_TemplateFollowed ==
    (ret # None /\ ret.op \in TemplateOperations)
        => /\ (/\ ret.outcome = "returned" /\ ~ret.fromCache
               /\ ret.useCache /\ ret.value.status = "success")
                  => /\ ret.key \in DOMAIN cache
                     /\ cache[ret.key].data = ret.value
           /\ (/\ ret.outcome = "threw"
               /\ ret.error.type \in { "NETWORK_ERROR", "SERVER_ERROR" })
                  => ret.requests = RETRY_ATTEMPTS

----------------------------------------------------------------------------
(* Claims about useCompanySearch and useDebounce                            *)

\* Every search issued has come back.
AllSearchesSettled ==
    /\ { c \in calls : c.kind = "search" } = {}
    /\ lastSearch.state = "done"

\* C1: once every in-flight search has resolved, the displayed `results` are
\* the ones produced by the response of the last search issued, whatever the
\* order in which the responses arrived.
C1_LastIssuedWins ==
    (AllSearchesSettled /\ lastWriter = "search")
        => results = lastSearch.results

\* The same for `error`: it is the one the last search issued produced.
LastIssuedError ==
    (AllSearchesSettled /\ lastWriter = "search")
        => error = lastSearch.error

\* The debounce handler armed by the last keystroke of a burst fires.
BurstEnds ==
    /\ \E t \in timers :
          t.hook = "useDebounce" /\ t.typed /\ timers' = timers \ { t }
    /\ query' = query
    /\ keystrokes' = keystrokes

\* C2: with autoSearch enabled, the end of a burst of keystrokes issues
\* exactly one search, for the query of the last keystroke (a query of at
\* least MIN_QUERY_LENGTH characters, which performSearch accepts).
C2_OneSearchPerBurst ==
    [][(autoSearch /\ BurstEnds /\ Len(query) >= MIN_QUERY_LENGTH)
          => /\ invoked' = invoked + 1
             /\ lastSearch'.query = query]_vars

\* At most one debounce handler is pending, and it is the one of the
\* current query.
OneDebounceTimer ==
    /\ Cardinality({ t \in timers : t.hook = "useDebounce" }) <= 1
    /\ \A t \in timers : t.hook = "useDebounce" => t.value = query

\* The debounce handler armed by a keystroke fires with the text t.value.
TypedDebounceFires(t) ==
    /\ t \in timers
    /\ t.hook = "useDebounce" /\ t.typed
    /\ t \notin timers'
    /\ query' = query
    /\ keystrokes' = keystrokes

\* C11: whenever the debounce timer fires with a query shorter than
\* MIN_QUERY_LENGTH, the empty query included, no network call is issued and
\* the search state is reset: results empty, error null, hasSearched false.
C11_BelowThresholdResets ==
    [][\A t \in timers :
          (autoSearch /\ TypedDebounceFires(t) /\ Len(t.value) < MIN_QUERY_LENGTH)
              => /\ calls' = calls
                 /\ results' = <<>>
                 /\ error' = Null
                 /\ hasSearched' = FALSE]_vars

\* A performSearch ran to its end in this step.
SearchCompletes ==
    /\ ret' # ret
    /\ ret'.op = "performSearch"

C16_FailureSetsError ==
    [][SearchCompletes
          => /\ hasSearched'
             /\ ret'.outcome \in { "failed", "threw" }
                   => /\ results' = <<>>
                      /\ error' # Null
                      /\ error' = ret'.message
                      /\ UNCHANGED recentVars]_vars

\* After a successful search that was saved, a later search was rejected:
\* the results are empty, the error is the one of the Error Record, and the
\* recent searches still hold the first query only.
C16_Witness ==
    /\ ret.op = "performSearch"
    /\ ret.outcome = "threw"
    /\ ret.seq = 2
    /\ results = <<>>
    /\ error = ret.message /\ error # Null
    /\ hasSearched
    /\ Len(saveLog) = 1
    /\ Len(getRecentSearches(storage)) = 1

\* C17: after clearSearch, until the next keystroke or search, every field
\* of the search state has its initial value, even when a search or a
\* suggestions fetch issued before the clear resolves afterwards.
C17_ClearedStaysInitial ==
    cleared
        => /\ query = ""
           /\ results = <<>>
           /\ suggestions = <<>>
           /\ loading = FALSE
           /\ error = Null
           /\ hasSearched = FALSE

\* A keystroke changes the input.
Keystroke == keystrokes' = keystrokes + 1

\* C20: the suggestions have their own 100 ms debounce: a keystroke leaving
\* a query of at least MIN_QUERY_LENGTH characters arms the one suggestions
\* timer, due SUGGESTIONS_DELAY later and carrying that query; a keystroke
\* leaving a shorter query arms it too or leaves the suggestions empty; and
\* the timer firing with a query of at least MIN_QUERY_LENGTH characters
\* issues the suggestions request for it.
C20_SuggestionsDebounce ==
    [][/\ (enableSuggestions /\ Keystroke)
            => LET armed == { t \in timers' : t.hook = "suggestions" }
               IN  IF Len(query') >= MIN_QUERY_LENGTH
                   THEN armed = { [hook |-> "suggestions", value |-> query',
                                   at |-> now + SUGGESTIONS_DELAY,
                                   typed |-> TRUE] }
                   ELSE \/ armed = { [hook |-> "suggestions", value |-> query',
                                      at |-> now + SUGGESTIONS_DELAY,
                                      typed |-> TRUE] }
                        \/ suggestions' = <<>>
       /\ \A t \in timers :
            (/\ t.hook = "suggestions" /\ t \notin timers'
             /\ ~Keystroke /\ query' = query /\ debouncedQuery' = debouncedQuery
             /\ Len(t.value) >= MIN_QUERY_LENGTH)
                => \E c \in calls' \ calls :
                      c.kind = "suggestions" /\ c.query = t.value]_vars

----------------------------------------------------------------------------
(* Claims about validateSearchQuery                                        *)

\* Two texts that differ only in leading, trailing or repeated white space.
SameButSpacing(a, b) == formatSearchQuery(a) = formatSearchQuery(b)

\* C21: the value returned for an accepted query is the query up to the
\* trimming and collapsing of white space, and validating that value again
\* accepts it and returns it unchanged.
C21_RoundTrip ==
    (validated # <<>> /\ validated[1].isValid) =>
        /\ SameButSpacing(validated[1].value, candidate)
        /\ \A i \in 2..Len(validated) : validated[i] = validated[1]

\* An accepted text with white space at both ends and inside has been
\* validated twice.
C21_Witness ==
    /\ Len(validated) = 2
    /\ validated[1].isValid
    /\ validated[1].value # candidate
    /\ \E i \in 1..Len(validated[1].value) : IsSpace(validated[1].value[i])

----------------------------------------------------------------------------
(* Claims about the TTL classes and the frame of a cache hit                *)

Minutes(n) == n * 60 * 1000

\* The TTL class the operation is stated to have.
StatedTtl(name) ==
    CASE name = "searchCompanies" -> Minutes(2)
      [] name \in { "lookupCompany", "getCompanyByTicker" } -> Minutes(10)
      [] name = "getStockQuote" -> Minutes(1)
      [] name = "getCompanyFilings" -> Minutes(30)

TtlOperations ==
    { "searchCompanies", "lookupCompany", "getCompanyByTicker",
      "getStockQuote", "getCompanyFilings" }

\* The step is a call of a cached operation, with the cache enabled, that
\* finds an entry under its key.
CallFinding(o) ==
    /\ fcall.name = "none"
    /\ fcall'.n = fcall.n + 1
    /\ o.key \in DOMAIN cache
    /\ \/ fcall'.name = o.name /\ fcall'.useCache
       \/ ret' # None /\ ret'.n = fcall'.n /\ ret'.op = o.name
            /\ ret'.useCache

\* C22: each cached operation reads and writes with its own TTL class: the
\* entry it writes carries that TTL, and a call that finds an entry is served
\* from it exactly when the entry is younger than the class (strictly), so
\* never at or after that age.
C22_OwnTtlClass ==
    [][\A o \in { op \in Operations : op.name \in TtlOperations } :
          /\ Written(o.key) => cache'[o.key].ttl = StatedTtl(o.name)
          /\ CallFinding(o) =>
                LET age == now - cache[o.key].timestamp
                IN  (ret' # None /\ ret'.n = fcall'.n /\ ret'.fromCache)
                        <=> age < StatedTtl(o.name)]_vars

\* getCompanyFilings was served from the cache one millisecond before its
\* 30 minutes were over.
C22_Witness ==
    /\ ret # None
    /\ ret.op = "getCompanyFilings"
    /\ ret.fromCache
    /\ ret.key \in DOMAIN lastPut
    /\ now - lastPut[ret.key].at = Minutes(30) - 1

\* The entry of key k is one getCache would still serve.
StillValid(k) ==
    k \in DOMAIN cache /\ now - cache[k].timestamp < cache[k].ttl

\* The step is a call answered from the cache.
CacheHit == ret' # ret /\ ret' # None /\ ret'.fromCache

\* C29: a cache hit leaves the cache as it is: neither the timestamp nor the
\* TTL of the entry is refreshed, so whatever the reads in between an entry
\* is served only while less than one TTL has passed since it was stored;
\* and an entry that is still valid is changed only by the write of a
\* successful response under its key or by clearCache.
C29_HitLeavesCache ==
    [][/\ CacheHit
          => /\ UNCHANGED cacheVars
             /\ ret'.key \in DOMAIN lastPut
             /\ cache[ret'.key].timestamp = lastPut[ret'.key].at
             /\ now - lastPut[ret'.key].at < lastPut[ret'.key].ttl
       /\ \A k \in DOMAIN cache :
             (StillValid(k) /\ (k \notin DOMAIN cache' \/ cache'[k] # cache[k]))
                 => \/ cache' = <<>>
                    \/ /\ ret' # ret /\ ret' # None
                       /\ ret'.outcome = "returned" /\ ~ret'.fromCache
                       /\ ret'.value.status = "success"
                       /\ ret'.key = k]_vars

\* The third call is a hit on an entry stored by the first, one millisecond
\* before its TTL is over.
C29_Witness ==
    /\ ret # None
    /\ ret.fromCache
    /\ ret.n = 3
    /\ DOMAIN lastPut = { ret.key }
    /\ lastPut[ret.key].at = 0
    /\ now = lastPut[ret.key].ttl - 1
    /\ cache[ret.key].timestamp = 0

----------------------------------------------------------------------------
(* Claims about the loop of retryRequest                                   *)

\* The requestFn calls of the loop that have neither resolved nor rejected:
\* every rejected call that did not end the loop armed one backoff wait.
InFlight(c) == c.requests - Len(c.delays)

Resolved == ret.op = "retryRequest" /\ ret.outcome = "resolved"

\* C23: retryRequest is a sequential loop.  While it runs at most one attempt
\* is in flight (one while it awaits requestFn, none while it waits); a
\* further requestFn call is made only from the backoff wait of a failed
\* attempt, once that wait is over, and one at a time; and the first attempt
\* that resolves ends the loop: the call resolves at that attempt, which all
\* earlier attempts preceded by failing, and requestFn is not called again.
C23_SequentialLoop ==
    /\ [](Running => /\ InFlight(rcall) \in { 0, 1 }
                     /\ InFlight(rcall) = 1 <=> rcall.phase = "request")
    /\ [][(Running /\ Running' /\ rcall'.requests # rcall.requests)
            => /\ rcall.phase = "backoff"
               /\ rcall.kinds # {}
               /\ now >= rcall.timer
               /\ rcall'.phase = "request"
               /\ rcall'.requests = rcall.requests + 1
               /\ rcall'.attempt = rcall.attempt + 1]_vars
    /\ [][(ret' # ret /\ Resolved')
            => /\ rcall.phase = "request"
               /\ rcall' = Idle
               /\ ret'.call.requests = rcall.requests
               /\ ret'.call.requests = Len(ret'.call.delays) + 1]_vars

\* The third attempt resolved, after two failures and their waits of 1000 and
\* 2000 ms.
C23_Witness ==
    /\ Resolved
    /\ ret.call.requests = 3
    /\ ret.call.delays = <<1000, 2000>>
    /\ now >= 3000
    /\ rcall = Idle

----------------------------------------------------------------------------
(* Claims about the order of the suggestions responses                     *)

\* The step in which the suggestions request of call c is over.
SuggestionsArrive(c) ==
    c \in calls /\ c.kind = "suggestions" /\ c \notin calls'

\* C24: the suggestions obey the last-issued rule: the response of the most
\* recently issued suggestions request leaves its list in `suggestions`
\* (the empty list if the request failed), and the response of an earlier,
\* superseded request that arrives after it changes nothing, so that once
\* every request has resolved `suggestions` is what the last request issued
\* left.
C24_LastIssuedSuggestions ==
    [][\A c \in calls :
          SuggestionsArrive(c)
              => IF c.seq = lastSuggest.seq
                 THEN suggestions' = lastSuggest'.results
                 ELSE lastSuggest.state = "done"
                          => suggestions' = suggestions]_vars

\* No suggestions request is in flight and the list on display is the
\* response to a query other than the last one requested.
StaleSuggestions ==
    /\ { c \in calls : c.kind = "suggestions" } = {}
    /\ lastSuggest.state = "done"
    /\ lastSuggest.results = <<lastSuggest.query>>
    /\ suggestions # <<>>
    /\ suggestions # lastSuggest.results

----------------------------------------------------------------------------
(* Claims about the loading flag                                           *)

\* The searches issued by the hook whose response has not arrived.
SearchesInFlight == { c \in calls : c.kind = "search" }

\* C25: `loading` is true exactly while at least one search issued by the
\* hook has not completed; with two searches overlapping it stays true until
\* the later of them completes.
C25_LoadingWhileInFlight ==
    loading <=> SearchesInFlight # {}

----------------------------------------------------------------------------
(* Claims about SearchBar                                                  *)

\* C26: when a manual search started by handleSearch(q) completes, the event
\* passed to onSearchResult carries q with the result list and the error of
\* that search: hasResults is true exactly when the search returned at least
\* one result, and error is non-null exactly when the search failed.
C26_EventOfTheSearch ==
    [][SearchCompletes
          => /\ notified'.sent
             /\ notified'.query = ret'.query
             /\ notified'.results = ret'.results
             /\ notified'.hasResults <=> Len(ret'.results) > 0
             /\ notified'.error # Null
                   <=> ret'.outcome \in { "failed", "threw" }]_vars

\* An entry of the dropdown is selected in this step.
Picks == picked'.n = picked.n + 1

\* C27: selecting a recent search or a suggestion (a text of at least
\* MIN_QUERY_LENGTH characters) always issues a search for the selected text,
\* whatever the input holds, the empty input included.
C27_SelectionSearches ==
    [][(Picks /\ Len(picked'.text) >= MIN_QUERY_LENGTH)
          => /\ invoked' = invoked + 1
             /\ lastSearch'.seq = invoked'
             /\ lastSearch'.query = picked'.text]_vars

\* A suggestion selected while the input holds a query of at least
\* MIN_QUERY_LENGTH characters has issued its search.
SelectionSearched ==
    /\ picked.n > 0
    /\ invoked > 0
    /\ lastSearch.query = picked.text
    /\ query = picked.text

----------------------------------------------------------------------------
(* Claims about Dashboard                                                  *)

\* C28: once every company lookup in flight has resolved, companyData is the
\* data of the query of the last search-result event (searchState.query), or
\* null when that event had no results; a lookup of an earlier query that
\* resolves later never replaces it, and nothing repopulates it after
\* clearResults.
C28_CompanyOfLastEvent ==
    lookups = {}
        => \/ companyData = NoData
           \/ /\ lastEvent.kind = "result"
              /\ lastEvent.hasResults
              /\ companyData = <<lastEvent.query>>
              /\ searchStatus.query = lastEvent.query

----------------------------------------------------------------------------
(* Claims about concurrent cache misses                                    *)

\* performSearch number invoked' starts in this step, for a query above the
\* threshold.
SearchStarts == invoked' = invoked + 1 /\ lastSearch'.seq = invoked'

\* The response of the search call c arrives in this step.
ResponseArrives(c) == c \in calls /\ c.kind = "search" /\ c \notin calls'

\* C30: concurrent misses are not coalesced.  A searchCompanies call that
\* finds no valid entry issues its own request, also while a request for the
\* same key is in flight; every 'success' response is written under the key
\* with its own payload and the time of its arrival, so that after two such
\* calls the one entry of the key is that of the response that arrived last;
\* and each call hands the payload of its own request to its caller.
C30_MissesNotCoalesced ==
    [][/\ (/\ SearchStarts
           /\ ~isValidCacheEntry(
                  MapGet(cache, SearchKey(lastSearch'.query, MAX_RESULTS)),
                  SEARCH_TTL))
          => \E c \in calls' \ calls :
                /\ c.seq = invoked'
                /\ c.key = SearchKey(lastSearch'.query, MAX_RESULTS)
       /\ \A c \in calls :
             ResponseArrives(c)
                 => /\ ret'.op = "performSearch" /\ ret'.seq = c.seq
                    /\ ret'.query = c.query
                    /\ ret'.outcome = "success"
                          => /\ c.key \in DOMAIN cache'
                             /\ cache'[c.key].data.results = ret'.results
                             /\ cache'[c.key].timestamp = now
                             /\ DOMAIN cache' = DOMAIN cache \cup { c.key }]_vars

\* Two searches for the same query overlapped on a cold cache; their
\* responses differ, the first issued arrived last, after the other, and the
\* entry of the key holds it.
C30_Witness ==
    /\ ret.op = "performSearch" /\ ret.outcome = "success"
    /\ ret.seq = 1
    /\ lastSearch.seq = 2 /\ lastSearch.state = "done"
    /\ lastSearch.query = ret.query
    /\ lastSearch.error = Null
    /\ lastSearch.results # ret.results
    /\ calls = {}
    /\ DOMAIN cache = { SearchKey(ret.query, MAX_RESULTS) }
    /\ cache[SearchKey(ret.query, MAX_RESULTS)].data.results = ret.results
    /\ cache[SearchKey(ret.query, MAX_RESULTS)].timestamp = now
    /\ now > 0

====
